---- MODULE Spec2Model ----
(***************************************************************************)
(* Hold-intent detection of the Elgato pedal controller.                   *)
(*                                                                         *)
(* The model follows src/src/button_state_machine.rs (the generic state    *)
(* machine), src/src/hold_intent_state_machine.rs (HoldIntentLogic) and    *)
(* src/src/hold_intent_input_action_manager.rs (the two entry points,      *)
(* process_hid_data and process_button_timeouts).  The per-device          *)
(* dispatcher that sits between the action manager and HoldIntentLogic     *)
(* and the two-argument threshold lookup are written from sections 3, 4.2  *)
(* and 4.3 of the specification.                                           *)
(*                                                                         *)
(* Time is in milliseconds.  An Option<T> is a sequence of length 0 (None) *)
(* or 1 (Some).                                                            *)
(***************************************************************************)
EXTENDS Integers, Sequences, FiniteSets, TLC

VARIABLES
    machines,   \* PhysicalButtonName -> ButtonStateMachine<ButtonState>
    config,     \* content of the TokenBasedParser behind the Arc<Mutex<..>>
    logic,      \* HoldIntentLogic: global_default_threshold_ms
    now,        \* the monotonic clock, read by the action manager on each call
    pedals,     \* the pedals the user operates in this run
    call,       \* history: the last entry-point call and the machines before it
    events,     \* history: the events the last call handed to the callback
    episode,    \* history: per button, what the current episode has emitted
    replay,     \* history: a recorded run and its replay after a reset
    calc,       \* history: the last quick-release threshold computed on u64
    pressed_keys,         \* InputSimulator: the keys held down
    scheduled_releases,   \* InputSimulator: (release time, key), in push order
    keylog,               \* history: which press of a key each entry was made for
    trackers,             \* HoldIntentParser (legacy): the ButtonTracker of each button
    presses,              \* InputActionManager (legacy): the queue of presses
    last_processed_time   \* InputActionManager (legacy)

\* the state of the input simulator and of the legacy parser and manager
simulator_vars == <<pressed_keys, scheduled_releases, keylog>>
legacy_vars == <<trackers, presses, last_processed_time>>
detector_vars == <<machines, config, logic, pedals, episode, replay, calc>>

vars ==
    <<machines, config, logic, now, pedals, call, events, episode, replay, calc,
      simulator_vars, legacy_vars>>

----------------------------------------------------------------------------
(* Bounds of the model *)

\* the clock advances in steps of TickMs, MaxTicks times at most
TickMs == 100
MaxTicks == 7
\* asserted signals one episode may record
MaxSignals == 3
\* the per-episode event counters saturate here
CountCap == 3
\* calls of a run that is recorded and replayed
MaxScript == 3
\* ticks of a run in which every pedal is operated
MultiTicks == 2

\* hold thresholds a button or the device may be configured with
Thresholds == {100, 300}
\* the global default handed to HoldIntentLogic::new
GlobalDefaults == {500}
\* hold thresholds the device settings may carry
DeviceThresholds == {200}

----------------------------------------------------------------------------
(* Options and small helpers *)

None == <<>>
Some(x) == <<x>>
is_some(o) == Len(o) > 0
is_none(o) == Len(o) = 0
unwrap(o) == o[1]

Max(a, b) == IF a >= b THEN a ELSE b
Min(a, b) == IF a <= b THEN a ELSE b

----------------------------------------------------------------------------
(* button_types.rs, token_based_config.rs: the vocabulary *)

\* PhysicalButtonName, in the order the frame is decoded
ButtonOrder == <<"Button1", "Button2", "Button3">>
Buttons == {ButtonOrder[i] : i \in 1..Len(ButtonOrder)}

ButtonState == {"IDLE", "EVALUATING", "HELD", "RELEASING"}
ButtonEventType == {"PRESSED", "HELD", "RELEASING"}

ButtonEvent(button_name, event_type) ==
    [button_name |-> button_name, event_type |-> event_type]

ButtonInput(button_name, is_pressed) ==
    [button_name |-> button_name, is_pressed |-> is_pressed]

----------------------------------------------------------------------------
(* button_state_machine.rs: ButtonStateMachine<S> *)

new(initial_state) ==
    [current_state     |-> initial_state,
     first_signal_time |-> None,
     last_signal_time  |-> None,
     signal_count      |-> 0,
     action_fired      |-> FALSE]

\* variant: a transition starts the new state unmarked
transition_to_unmarks(sm, new_state) ==
    [sm EXCEPT !.current_state = new_state, !.action_fired = FALSE]

transition_to(sm, new_state) == [sm EXCEPT !.current_state = new_state]

\* variant: every signal restarts the clock of the episode
record_signal_restarts(sm, t) ==
    IF is_none(sm.first_signal_time)
    THEN [sm EXCEPT !.first_signal_time = Some(t),
                    !.signal_count = 1,
                    !.last_signal_time = Some(t)]
    ELSE [sm EXCEPT !.first_signal_time = Some(t),
                    !.signal_count = sm.signal_count + 1,
                    !.last_signal_time = Some(t)]

\* variant: the first signal is timed but not counted
record_signal_uncounted(sm, t) ==
    IF is_none(sm.first_signal_time)
    THEN [sm EXCEPT !.first_signal_time = Some(t),
                    !.last_signal_time = Some(t)]
    ELSE [sm EXCEPT !.signal_count = sm.signal_count + 1,
                    !.last_signal_time = Some(t)]

record_signal(sm, t) ==
    IF is_none(sm.first_signal_time)
    THEN [sm EXCEPT !.first_signal_time = Some(t),
                    !.signal_count = 1,
                    !.last_signal_time = Some(t)]
    ELSE [sm EXCEPT !.signal_count = sm.signal_count + 1,
                    !.last_signal_time = Some(t)]

\* variant: the time is measured from the start of the clock
time_since_first_signal_absolute(sm, t) ==
    IF is_none(sm.first_signal_time) THEN None ELSE Some(t)

\* Instant::duration_since saturates at zero
time_since_first_signal(sm, t) ==
    IF is_none(sm.first_signal_time)
    THEN None
    ELSE Some(Max(t - unwrap(sm.first_signal_time), 0))

\* variant: marking has no effect
mark_action_fired_lost(sm) == sm

mark_action_fired(sm) == [sm EXCEPT !.action_fired = TRUE]

\* variant: reset leaves action_fired as it is
reset_keeps_fired(sm, initial_state) ==
    [sm EXCEPT !.current_state = initial_state,
               !.first_signal_time = None,
               !.last_signal_time = None,
               !.signal_count = 0]

\* variant: reset leaves the recorded signals as they are
reset_keeps_signals(sm, initial_state) ==
    [sm EXCEPT !.current_state = initial_state,
               !.action_fired = FALSE]

reset(sm, initial_state) ==
    [sm EXCEPT !.current_state = initial_state,
               !.first_signal_time = None,
               !.last_signal_time = None,
               !.signal_count = 0,
               !.action_fired = FALSE]

\* StateTransition<E>
Continue == [kind |-> "Continue", events |-> <<>>]
EmitEvents(evs) == [kind |-> "EmitEvents", events |-> evs]
Reset == [kind |-> "Reset", events |-> <<>>]

\* what a step of the logic hands back: the mutated machine and the transition
Step(sm, tr) == [sm |-> sm, tr |-> tr]

initial_state == "IDLE"

----------------------------------------------------------------------------
(* token_based_config.rs: TokenBasedParser *)

\* Some(actions) when the button has an entry for event_type; the action list
\* itself plays no part in the detection and is represented by its key
get_actions_for_button_event(cfg, button_name, event_type) ==
    IF event_type \in cfg.buttons[button_name].actions
    THEN Some(event_type)
    ELSE None

\* per-button override > per-device override > global default
get_hold_threshold_ms(cfg, button_name, global_default) ==
    IF is_some(cfg.buttons[button_name].hold_threshold_time_ms)
    THEN unwrap(cfg.buttons[button_name].hold_threshold_time_ms)
    ELSE IF is_some(cfg.settings)
         THEN unwrap(cfg.settings)
         ELSE global_default

----------------------------------------------------------------------------
(* hold_intent_state_machine.rs: HoldIntentLogic *)

\* the outcome of the three config_parser.lock() calls of one process_input:
\* TRUE when the lock is taken
AllLocked == [config |-> TRUE, quick |-> TRUE, releasing |-> TRUE]

QuickReleaseFloorMs == 200
QuickReleasePercent == 60

\* variant: the quick-release threshold is the whole hold threshold
get_quick_release_threshold_ms_whole(cfg, lg, button_name, locked) ==
    IF ~locked
    THEN QuickReleaseFloorMs
    ELSE Max(get_hold_threshold_ms(cfg, button_name, lg.global_default_threshold_ms),
             QuickReleaseFloorMs)

get_quick_release_threshold_ms(cfg, lg, button_name, locked) ==
    IF ~locked
    THEN QuickReleaseFloorMs
    ELSE LET hold_threshold ==
                 get_hold_threshold_ms(cfg, button_name, lg.global_default_threshold_ms)
             calculated == (hold_threshold * QuickReleasePercent) \div 100
         IN  Max(calculated, QuickReleaseFloorMs)

\* variant: the HELD lookup asks for the PRESSED actions
get_button_config_miskeyed(cfg, lg, button_name, locked) ==
    IF ~locked
    THEN [has_pressed_action |-> FALSE,
          has_held_action    |-> FALSE,
          threshold_ms       |-> lg.global_default_threshold_ms]
    ELSE [has_pressed_action |->
              is_some(get_actions_for_button_event(cfg, button_name, "PRESSED")),
          has_held_action    |->
              is_some(get_actions_for_button_event(cfg, button_name, "PRESSED")),
          threshold_ms       |->
              get_hold_threshold_ms(cfg, button_name, lg.global_default_threshold_ms)]

\* variant: the threshold is the global default whatever is configured
get_button_config_global(cfg, lg, button_name, locked) ==
    IF ~locked
    THEN [has_pressed_action |-> FALSE,
          has_held_action    |-> FALSE,
          threshold_ms       |-> lg.global_default_threshold_ms]
    ELSE [has_pressed_action |->
              is_some(get_actions_for_button_event(cfg, button_name, "PRESSED")),
          has_held_action    |->
              is_some(get_actions_for_button_event(cfg, button_name, "HELD")),
          threshold_ms       |-> lg.global_default_threshold_ms]

\* variant: every button is looked up under the name of the first one
get_button_config_shared(cfg, lg, button_name, locked) ==
    IF ~locked
    THEN [has_pressed_action |-> FALSE,
          has_held_action    |-> FALSE,
          threshold_ms       |-> lg.global_default_threshold_ms]
    ELSE [has_pressed_action |->
              is_some(get_actions_for_button_event(cfg, ButtonOrder[1], "PRESSED")),
          has_held_action    |->
              is_some(get_actions_for_button_event(cfg, ButtonOrder[1], "HELD")),
          threshold_ms       |->
              get_hold_threshold_ms(cfg, ButtonOrder[1],
                                    lg.global_default_threshold_ms)]

get_button_config(cfg, lg, button_name, locked) ==
    IF ~locked
    THEN [has_pressed_action |-> FALSE,
          has_held_action    |-> FALSE,
          threshold_ms       |-> lg.global_default_threshold_ms]
    ELSE [has_pressed_action |->
              is_some(get_actions_for_button_event(cfg, button_name, "PRESSED")),
          has_held_action    |->
              is_some(get_actions_for_button_event(cfg, button_name, "HELD")),
          threshold_ms       |->
              get_hold_threshold_ms(cfg, button_name, lg.global_default_threshold_ms)]

\* variant: the immediate PRESSED is not marked as fired
handle_idle_to_evaluating_unmarked(sm, input, bc, t) ==
    LET sm1 == record_signal(transition_to(sm, "EVALUATING"), t)
    IN  IF bc.has_pressed_action /\ ~bc.has_held_action
        THEN Step(sm1, EmitEvents(<<ButtonEvent(input.button_name, "PRESSED")>>))
        ELSE Step(sm1, Continue)

\* variant: PRESSED fires at once for every button without a HELD action
handle_idle_to_evaluating_eager(sm, input, bc, t) ==
    LET sm1 == record_signal(transition_to(sm, "EVALUATING"), t)
    IN  IF ~bc.has_held_action
        THEN Step(mark_action_fired(sm1),
                  EmitEvents(<<ButtonEvent(input.button_name, "PRESSED")>>))
        ELSE Step(sm1, Continue)

handle_idle_to_evaluating(sm, input, bc, t) ==
    LET sm1 == record_signal(transition_to(sm, "EVALUATING"), t)
    IN  IF bc.has_pressed_action /\ ~bc.has_held_action
        THEN Step(mark_action_fired(sm1),
                  EmitEvents(<<ButtonEvent(input.button_name, "PRESSED")>>))
        ELSE Step(sm1, Continue)

\* variant: HELD fires on every repeated signal, fired or not
handle_evaluating_with_signal_refire(sm, input, bc, t) ==
    LET sm1 == record_signal(sm, t)
    IN  IF /\ sm1.signal_count >= 2
           /\ bc.has_held_action
           /\ bc.has_pressed_action
        THEN Step(mark_action_fired(sm1),
                  EmitEvents(<<ButtonEvent(input.button_name, "HELD")>>))
        ELSE Step(sm1, Continue)

\* variant: a repeated signal fires HELD only once the threshold has passed
handle_evaluating_with_signal_late(sm, input, bc, t) ==
    LET sm1 == record_signal(sm, t)
    IN  IF /\ sm1.signal_count >= 2
           /\ sm1.current_state = "HELD"
           /\ ~sm1.action_fired
           /\ bc.has_held_action
           /\ bc.has_pressed_action
        THEN Step(mark_action_fired(sm1),
                  EmitEvents(<<ButtonEvent(input.button_name, "HELD")>>))
        ELSE Step(sm1, Continue)

handle_evaluating_with_signal(sm, input, bc, t) ==
    LET sm1 == record_signal(sm, t)
    IN  IF /\ sm1.signal_count >= 2
           /\ ~sm1.action_fired
           /\ bc.has_held_action
           /\ bc.has_pressed_action
        THEN Step(mark_action_fired(sm1),
                  EmitEvents(<<ButtonEvent(input.button_name, "HELD")>>))
        ELSE Step(sm1, Continue)

\* variant: the threshold is exclusive
evaluating_signal_exclusive(sm, input, bc, t) ==
    LET since == time_since_first_signal(sm, t)
        sm1 == IF is_some(since) /\ unwrap(since) > bc.threshold_ms
               THEN transition_to(sm, "HELD")
               ELSE sm
    IN  handle_evaluating_with_signal(sm1, input, bc, t)

\* variant: only a button with a HELD action is moved to HELD
evaluating_signal_configured(sm, input, bc, t) ==
    LET since == time_since_first_signal(sm, t)
        sm1 == IF /\ is_some(since)
                  /\ unwrap(since) >= bc.threshold_ms
                  /\ bc.has_held_action
               THEN transition_to(sm, "HELD")
               ELSE sm
    IN  handle_evaluating_with_signal(sm1, input, bc, t)

\* process_input, (EVALUATING, true)
evaluating_signal(sm, input, bc, t) ==
    LET since == time_since_first_signal(sm, t)
        sm1 == IF is_some(since) /\ unwrap(since) >= bc.threshold_ms
               THEN transition_to(sm, "HELD")
               ELSE sm
    IN  handle_evaluating_with_signal(sm1, input, bc, t)

\* variant: the quick-release comparison is the wrong way round
early_release_events_inverted(sm, input, bc, time_elapsed_ms, quick_release_threshold) ==
    IF bc.has_pressed_action /\ bc.has_held_action
    THEN IF time_elapsed_ms >= quick_release_threshold /\ ~sm.action_fired
         THEN [sm |-> mark_action_fired(sm),
               events |-> <<ButtonEvent(input.button_name, "PRESSED")>>]
         ELSE [sm |-> sm, events |-> <<>>]
    ELSE IF bc.has_held_action /\ ~bc.has_pressed_action
    THEN [sm |-> sm, events |-> <<>>]
    ELSE IF bc.has_pressed_action /\ ~bc.has_held_action
    THEN IF ~sm.action_fired
         THEN [sm |-> mark_action_fired(sm),
               events |-> <<ButtonEvent(input.button_name, "PRESSED")>>]
         ELSE [sm |-> sm, events |-> <<>>]
    ELSE [sm |-> sm, events |-> <<>>]

\* variant: the held-only branch fires HELD on the release
early_release_events_held_fires(sm, input, bc, time_elapsed_ms, quick_release_threshold) ==
    IF bc.has_pressed_action /\ bc.has_held_action
    THEN IF time_elapsed_ms < quick_release_threshold /\ ~sm.action_fired
         THEN [sm |-> mark_action_fired(sm),
               events |-> <<ButtonEvent(input.button_name, "PRESSED")>>]
         ELSE [sm |-> sm, events |-> <<>>]
    ELSE IF bc.has_held_action /\ ~bc.has_pressed_action
    THEN IF ~sm.action_fired
         THEN [sm |-> mark_action_fired(sm),
               events |-> <<ButtonEvent(input.button_name, "HELD")>>]
         ELSE [sm |-> sm, events |-> <<>>]
    ELSE IF bc.has_pressed_action /\ ~bc.has_held_action
    THEN IF ~sm.action_fired
         THEN [sm |-> mark_action_fired(sm),
               events |-> <<ButtonEvent(input.button_name, "PRESSED")>>]
         ELSE [sm |-> sm, events |-> <<>>]
    ELSE [sm |-> sm, events |-> <<>>]

\* variant: a button with neither action gets the PRESSED of a pressed-only one
early_release_events_default_press(sm, input, bc, time_elapsed_ms, quick_release_threshold) ==
    IF bc.has_pressed_action /\ bc.has_held_action
    THEN IF time_elapsed_ms < quick_release_threshold /\ ~sm.action_fired
         THEN [sm |-> mark_action_fired(sm),
               events |-> <<ButtonEvent(input.button_name, "PRESSED")>>]
         ELSE [sm |-> sm, events |-> <<>>]
    ELSE IF bc.has_held_action /\ ~bc.has_pressed_action
    THEN [sm |-> sm, events |-> <<>>]
    ELSE IF ~sm.action_fired
    THEN [sm |-> mark_action_fired(sm),
          events |-> <<ButtonEvent(input.button_name, "PRESSED")>>]
    ELSE [sm |-> sm, events |-> <<>>]

\* variant: the quick-release PRESSED is emitted without mark_action_fired
early_release_events_unmarked(sm, input, bc, time_elapsed_ms, quick_release_threshold) ==
    IF bc.has_pressed_action /\ bc.has_held_action
    THEN IF time_elapsed_ms < quick_release_threshold /\ ~sm.action_fired
         THEN [sm |-> sm,
               events |-> <<ButtonEvent(input.button_name, "PRESSED")>>]
         ELSE [sm |-> sm, events |-> <<>>]
    ELSE IF bc.has_held_action /\ ~bc.has_pressed_action
    THEN [sm |-> sm, events |-> <<>>]
    ELSE IF bc.has_pressed_action /\ ~bc.has_held_action
    THEN IF ~sm.action_fired
         THEN [sm |-> mark_action_fired(sm),
               events |-> <<ButtonEvent(input.button_name, "PRESSED")>>]
         ELSE [sm |-> sm, events |-> <<>>]
    ELSE [sm |-> sm, events |-> <<>>]

\* process_input, (EVALUATING, false): the events of an early release,
\* events_to_emit, and the machine after mark_action_fired
early_release_events(sm, input, bc, time_elapsed_ms, quick_release_threshold) ==
    IF bc.has_pressed_action /\ bc.has_held_action
    THEN IF time_elapsed_ms < quick_release_threshold /\ ~sm.action_fired
         THEN [sm |-> mark_action_fired(sm),
               events |-> <<ButtonEvent(input.button_name, "PRESSED")>>]
         ELSE [sm |-> sm, events |-> <<>>]
    ELSE IF bc.has_held_action /\ ~bc.has_pressed_action
    THEN [sm |-> sm, events |-> <<>>]
    ELSE IF bc.has_pressed_action /\ ~bc.has_held_action
    THEN IF ~sm.action_fired
         THEN [sm |-> mark_action_fired(sm),
               events |-> <<ButtonEvent(input.button_name, "PRESSED")>>]
         ELSE [sm |-> sm, events |-> <<>>]
    ELSE [sm |-> sm, events |-> <<>>]

\* variant: RELEASING is entered but not announced after a PRESSED event
early_release_transition_silent(sm, input, events_to_emit, cfg, locked) ==
    IF ~locked
    THEN IF events_to_emit = <<>>
         THEN Step(sm, Reset)
         ELSE Step(sm, EmitEvents(events_to_emit))
    ELSE IF is_some(get_actions_for_button_event(cfg, input.button_name, "RELEASING"))
    THEN IF events_to_emit # <<>>
         THEN Step(transition_to(sm, "RELEASING"), EmitEvents(events_to_emit))
         ELSE Step(transition_to(sm, "RELEASING"),
                   EmitEvents(<<ButtonEvent(input.button_name, "RELEASING")>>))
    ELSE IF events_to_emit # <<>>
         THEN Step(sm, EmitEvents(events_to_emit))
         ELSE Step(sm, Reset)

\* variant: RELEASING is announced ahead of the collected events
early_release_transition_reversed(sm, input, events_to_emit, cfg, locked) ==
    IF ~locked
    THEN IF events_to_emit = <<>>
         THEN Step(sm, Reset)
         ELSE Step(sm, EmitEvents(events_to_emit))
    ELSE IF is_some(get_actions_for_button_event(cfg, input.button_name, "RELEASING"))
    THEN Step(transition_to(sm, "RELEASING"),
              EmitEvents(<<ButtonEvent(input.button_name, "RELEASING")>>
                             \o events_to_emit))
    ELSE IF events_to_emit # <<>>
         THEN Step(sm, EmitEvents(events_to_emit))
         ELSE Step(sm, Reset)

\* process_input, (EVALUATING, false): what follows events_to_emit
early_release_transition(sm, input, events_to_emit, cfg, locked) ==
    IF ~locked
    THEN IF events_to_emit = <<>>
         THEN Step(sm, Reset)
         ELSE Step(sm, EmitEvents(events_to_emit))
    ELSE IF is_some(get_actions_for_button_event(cfg, input.button_name, "RELEASING"))
    THEN Step(transition_to(sm, "RELEASING"),
              EmitEvents(Append(events_to_emit,
                                ButtonEvent(input.button_name, "RELEASING"))))
    ELSE IF events_to_emit # <<>>
         THEN Step(sm, EmitEvents(events_to_emit))
         ELSE Step(sm, Reset)

\* variant: the RELEASING lookup goes ahead whatever the lock says
evaluating_release_relocked(sm, input, bc, t, cfg, lg, lk) ==
    LET since == time_since_first_signal(sm, t)
    IN  IF is_some(since)
        THEN LET quick == get_quick_release_threshold_ms(cfg, lg, input.button_name,
                                                        lk.quick)
                 early == early_release_events(sm, input, bc, unwrap(since), quick)
             IN  early_release_transition(early.sm, input, early.events, cfg, TRUE)
        ELSE Step(sm, Reset)

\* process_input, (EVALUATING, false)
evaluating_release(sm, input, bc, t, cfg, lg, lk) ==
    LET since == time_since_first_signal(sm, t)
    IN  IF is_some(since)
        THEN LET quick == get_quick_release_threshold_ms(cfg, lg, input.button_name,
                                                        lk.quick)
                 early == early_release_events(sm, input, bc, unwrap(since), quick)
             IN  early_release_transition(early.sm, input, early.events, cfg,
                                          lk.releasing)
        ELSE Step(sm, Reset)

\* variant: RELEASING is emitted whether or not an action is configured
held_release_unconditional(sm, input, cfg, locked) ==
    IF ~locked
    THEN Step(sm, Reset)
    ELSE Step(transition_to(sm, "RELEASING"),
              EmitEvents(<<ButtonEvent(input.button_name, "RELEASING")>>))

\* process_input, (HELD, false)
held_release(sm, input, cfg, locked) ==
    IF ~locked
    THEN Step(sm, Reset)
    ELSE IF is_some(get_actions_for_button_event(cfg, input.button_name, "RELEASING"))
    THEN Step(transition_to(sm, "RELEASING"),
              EmitEvents(<<ButtonEvent(input.button_name, "RELEASING")>>))
    ELSE Step(sm, Reset)

\* process_input, (RELEASING, true)
releasing_signal(sm, t) ==
    Step(record_signal(transition_to(sm, "EVALUATING"), t), Continue)

\* variant: a signal that no arm handles is still recorded
process_input_records(sm, input, t, cfg, lg, lk) ==
    LET bc == get_button_config(cfg, lg, input.button_name, lk.config)
        st == sm.current_state
    IN  IF st = "IDLE" /\ input.is_pressed
        THEN handle_idle_to_evaluating(sm, input, bc, t)
        ELSE IF st = "EVALUATING" /\ input.is_pressed
        THEN evaluating_signal(sm, input, bc, t)
        ELSE IF st = "EVALUATING" /\ ~input.is_pressed
        THEN evaluating_release(sm, input, bc, t, cfg, lg, lk)
        ELSE IF st = "HELD" /\ ~input.is_pressed
        THEN held_release(sm, input, cfg, lk.releasing)
        ELSE IF st = "RELEASING" /\ ~input.is_pressed
        THEN Step(sm, Reset)
        ELSE IF st = "RELEASING" /\ input.is_pressed
        THEN releasing_signal(sm, t)
        ELSE Step(record_signal(sm, t), Continue)

process_input(sm, input, t, cfg, lg, lk) ==
    LET bc == get_button_config(cfg, lg, input.button_name, lk.config)
        st == sm.current_state
    IN  IF st = "IDLE" /\ input.is_pressed
        THEN handle_idle_to_evaluating(sm, input, bc, t)
        ELSE IF st = "EVALUATING" /\ input.is_pressed
        THEN evaluating_signal(sm, input, bc, t)
        ELSE IF st = "EVALUATING" /\ ~input.is_pressed
        THEN evaluating_release(sm, input, bc, t, cfg, lg, lk)
        ELSE IF st = "HELD" /\ ~input.is_pressed
        THEN held_release(sm, input, cfg, lk.releasing)
        ELSE IF st = "RELEASING" /\ ~input.is_pressed
        THEN Step(sm, Reset)
        ELSE IF st = "RELEASING" /\ input.is_pressed
        THEN releasing_signal(sm, t)
        ELSE Step(sm, Continue)

----------------------------------------------------------------------------
(* get_quick_release_threshold_ms at the width of u64.  A u64 is a sequence *)
(* of four 16-bit limbs, the least significant first.                      *)

Limb == 65536
U64Limbs == 4

\* the u64 of a small number
u64(n) == [i \in 1 .. U64Limbs |-> IF i = 1 THEN n % Limb
                                   ELSE IF i = 2 THEN n \div Limb
                                   ELSE 0]

\* x * k limb by limb: the limbs of the product that fit the width of x, and
\* the carry out of the most significant limb
mul_small(x, k) ==
    LET F[i \in 0 .. Len(x)] ==
            IF i = 0
            THEN [limbs |-> <<>>, carry |-> 0]
            ELSE LET p == x[i] * k + F[i - 1].carry
                 IN  [limbs |-> Append(F[i - 1].limbs, p % Limb),
                      carry |-> p \div Limb]
    IN  F[Len(x)]

\* x / d, rounded down, by long division from the most significant limb
div_small(x, d) ==
    LET G[i \in 0 .. Len(x)] ==
            IF i = 0
            THEN [limbs |-> <<>>, rem |-> 0]
            ELSE LET cur == G[i - 1].rem * Limb + x[Len(x) - i + 1]
                 IN  [limbs |-> <<cur \div d>> \o G[i - 1].limbs,
                      rem |-> cur % d]
    IN  G[Len(x)].limbs

less_than(x, y) ==
    \E i \in 1 .. Len(x) :
        /\ x[i] < y[i]
        /\ \A j \in (i + 1) .. Len(x) : x[j] = y[j]

\* u64::max
max(x, y) == IF less_than(x, y) THEN y ELSE x

\* what the build makes of an overflowing multiplication: a panic with
\* overflow checks (debug profile), the wrapped product without (release)
Builds == {"debug", "release"}

\* (hold_threshold * 60) / 100, then .max(200), on a u64 hold_threshold
quick_release_threshold_u64(hold_threshold, build) ==
    LET product == mul_small(hold_threshold, QuickReleasePercent)
        calculated == div_small(product.limbs, 100)
    IN  IF product.carry # 0 /\ build = "debug"
        THEN [outcome |-> "panic"]
        ELSE [outcome |-> "value",
              value |-> max(calculated, u64(QuickReleaseFloorMs))]

----------------------------------------------------------------------------
(* The per-device dispatcher (specification, sections 4.2 and 4.3) *)

has_releasing_event(evs) ==
    \E i \in DOMAIN evs : evs[i].event_type = "RELEASING"

\* the dispatcher applies the transition the logic returned: Reset resets
\* the machine, and so does the emission of a RELEASING event
apply_transition(sm, tr) ==
    IF tr.kind = "Reset"
    THEN reset(sm, initial_state)
    ELSE IF tr.kind = "EmitEvents" /\ has_releasing_event(tr.events)
    THEN reset(sm, initial_state)
    ELSE sm

\* one ButtonInput through the logic: the machine and the events afterwards
dispatch(sm, input, t, cfg, lg, lk) ==
    LET step == process_input(sm, input, t, cfg, lg, lk)
    IN  [sm |-> apply_transition(step.sm, step.tr), events |-> step.tr.events]

\* one raw sample: the buttons are fed in enumeration order, from the i-th on
RECURSIVE parse_hid_data_from(_, _, _, _, _, _, _)
parse_hid_data_from(i, ms, levels, t, cfg, lg, lk) ==
    IF i > Len(ButtonOrder)
    THEN [machines |-> ms, events |-> <<>>]
    ELSE LET b == ButtonOrder[i]
             d == dispatch(ms[b], ButtonInput(b, levels[b]), t, cfg, lg, lk)
             rest == parse_hid_data_from(i + 1, [ms EXCEPT ![b] = d.sm],
                                         levels, t, cfg, lg, lk)
         IN  [machines |-> rest.machines, events |-> d.events \o rest.events]

parse_hid_data(ms, levels, t, cfg, lg, lk) ==
    parse_hid_data_from(1, ms, levels, t, cfg, lg, lk)

\* the threshold-expiry check of the timeout sweep, for one button
timeout_check(sm, button_name, t, cfg, lg, locked) ==
    LET bc == get_button_config(cfg, lg, button_name, locked)
        since == time_since_first_signal(sm, t)
    IN  IF /\ sm.current_state = "EVALUATING"
           /\ is_some(since)
           /\ unwrap(since) >= bc.threshold_ms
           /\ ~sm.action_fired
           /\ bc.has_held_action
        THEN [sm |-> transition_to(mark_action_fired(sm), "HELD"),
              events |-> <<ButtonEvent(button_name, "HELD")>>]
        ELSE [sm |-> sm, events |-> <<>>]

RECURSIVE process_button_timeouts_from(_, _, _, _, _, _)
process_button_timeouts_from(i, ms, t, cfg, lg, locked) ==
    IF i > Len(ButtonOrder)
    THEN [machines |-> ms, events |-> <<>>]
    ELSE LET b == ButtonOrder[i]
             c == timeout_check(ms[b], b, t, cfg, lg, locked)
             rest == process_button_timeouts_from(i + 1, [ms EXCEPT ![b] = c.sm],
                                                  t, cfg, lg, locked)
         IN  [machines |-> rest.machines, events |-> c.events \o rest.events]

process_button_timeouts(ms, t, cfg, lg, locked) ==
    process_button_timeouts_from(1, ms, t, cfg, lg, locked)

----------------------------------------------------------------------------
(* hold_intent_input_action_manager.rs: the collected events are handled *)

\* variant: the collected events are taken from the end of the vector
RECURSIVE handle_events_backwards(_)
handle_events_backwards(evs) ==
    IF evs = <<>>
    THEN <<>>
    ELSE handle_events_backwards(Tail(evs)) \o <<Head(evs)>>

\* for event in events { self.handle_button_event(event) }: the events in
\* the order handle_button_event is called on them
RECURSIVE handle_events(_)
handle_events(evs) ==
    IF evs = <<>>
    THEN <<>>
    ELSE <<Head(evs)>> \o handle_events(Tail(evs))

----------------------------------------------------------------------------
(* History: the events of an episode *)

CountOf(evs, button_name, event_type) ==
    Cardinality({i \in DOMAIN evs : /\ evs[i].button_name = button_name
                                    /\ evs[i].event_type = event_type})

NoEpisode == [PRESSED |-> 0, HELD |-> 0, RELEASING |-> 0, releases |-> 0]

\* an episode starts with the asserted signal that finds the machine IDLE;
\* its record is kept until the next episode of the button starts.  releases
\* counts the de-asserted signals dispatched to the machine in the episode
episode_after(ep, pre, is_input, is_pressed, evs, button_name) ==
    LET base == IF is_input /\ is_pressed /\ pre.current_state = "IDLE"
                THEN NoEpisode
                ELSE ep
    IN  [PRESSED   |-> Min(base.PRESSED + CountOf(evs, button_name, "PRESSED"),
                           CountCap),
         HELD      |-> Min(base.HELD + CountOf(evs, button_name, "HELD"), CountCap),
         RELEASING |-> Min(base.RELEASING + CountOf(evs, button_name, "RELEASING"),
                           CountCap),
         releases  |-> IF is_input /\ ~is_pressed /\ pre.current_state # "IDLE"
                       THEN Min(base.releases + 1, CountCap)
                       ELSE base.releases]

----------------------------------------------------------------------------
(* input_simulator.rs: pressed_keys and scheduled_releases.  A key press    *)
(* or release that enigo refuses makes execute_actions panic (expect), so   *)
(* the presses and explicit releases of the model are the accepted ones; a  *)
(* refused release inside execute_key_press and process_scheduled_releases  *)
(* is only logged, and is an input of those operators                       *)

Keys == {"KeyA", "KeyB"}

\* Vec::retain: the elements of seq at the indices of keep, in order
RECURSIVE retain_from(_, _, _)
retain_from(i, seq, keep) ==
    IF i > Len(seq)
    THEN <<>>
    ELSE (IF i \in keep THEN <<seq[i]>> ELSE <<>>) \o retain_from(i + 1, seq, keep)

retain(seq, keep) == retain_from(1, seq, keep)

\* execute_key_press with an accepted press; release_ok is whether enigo
\* accepts the immediate release of an auto_release press
execute_key_press(pressed, key, auto_release, release_ok) ==
    LET inserted == pressed \cup {key}
    IN  IF auto_release /\ release_ok THEN inserted \ {key} ELSE inserted

\* execute_key_release with an accepted release
execute_key_release(pressed, key) ==
    IF key \in pressed THEN pressed \ {key} ELSE pressed

\* schedule_release_all_after: order is the order in which the HashSet
\* pressed_keys is iterated
schedule_release_all_after(scheduled, order, t, duration_ms) ==
    LET release_time == IF duration_ms > 0 THEN t + duration_ms ELSE t
    IN  scheduled \o [i \in DOMAIN order |->
                          [release_time |-> release_time, key |-> order[i]]]

\* the entries of the schedule that retain removes and keeps
due_entries(scheduled, t) ==
    {i \in DOMAIN scheduled : scheduled[i].release_time <= t}

\* for key in releases_to_process: the keys still pressed afterwards and the
\* entries whose release was executed; failing holds the entries whose
\* release enigo refuses
RECURSIVE release_each(_, _, _, _, _)
release_each(i, pressed, scheduled, due, failing) ==
    IF i > Len(scheduled)
    THEN [pressed_keys |-> pressed, released |-> <<>>]
    ELSE IF i \in due /\ scheduled[i].key \in pressed /\ i \notin failing
    THEN LET rest == release_each(i + 1, pressed \ {scheduled[i].key}, scheduled,
                                  due, failing)
         IN  [pressed_keys |-> rest.pressed_keys,
              released |-> <<i>> \o rest.released]
    ELSE release_each(i + 1, pressed, scheduled, due, failing)

\* variant: an entry is due only after its release time
process_scheduled_releases_strict(pressed, scheduled, t, failing) ==
    LET due == {i \in DOMAIN scheduled : scheduled[i].release_time < t}
        done == release_each(1, pressed, scheduled, due, failing)
    IN  [pressed_keys |-> done.pressed_keys,
         scheduled_releases |-> retain(scheduled, DOMAIN scheduled \ due),
         kept |-> DOMAIN scheduled \ due,
         released |-> done.released]

\* variant: an entry whose release is refused stays in the schedule
process_scheduled_releases_retry(pressed, scheduled, t, failing) ==
    LET due == due_entries(scheduled, t)
        done == release_each(1, pressed, scheduled, due, failing)
    IN  [pressed_keys |-> done.pressed_keys,
         scheduled_releases |->
             retain(scheduled, DOMAIN scheduled \ (due \ failing)),
         kept |-> DOMAIN scheduled \ (due \ failing),
         released |-> done.released]

process_scheduled_releases(pressed, scheduled, t, failing) ==
    LET due == due_entries(scheduled, t)
        done == release_each(1, pressed, scheduled, due, failing)
    IN  [pressed_keys |-> done.pressed_keys,
         scheduled_releases |-> retain(scheduled, DOMAIN scheduled \ due),
         kept |-> DOMAIN scheduled \ due,
         released |-> done.released]

\* history: serial counts the presses of each key that found it released
\* and pressed_at is the time of the last of them, scheduled_for holds,
\* entry by entry, the press the key was in when the entry was pushed,
\* released the entries the last call executed
NoKeylog ==
    [serial |-> [k \in Keys |-> 0], pressed_at |-> [k \in Keys |-> 0],
     scheduled_for |-> <<>>, released |-> <<>>]

\* InputSimulator::new
InputSimulator_new ==
    /\ pressed_keys = {}
    /\ scheduled_releases = <<>>
    /\ keylog = NoKeylog

----------------------------------------------------------------------------
(* hold_intent_parser.rs: the legacy HoldIntentParser.  Its three closures  *)
(* are the caller's lookups, here lookups in config                         *)

\* ButtonTracker::new
ButtonTracker_new ==
    [state             |-> "IDLE",
     first_signal_time |-> None,
     last_signal_time  |-> None,
     signal_count      |-> 0,
     action_fired      |-> FALSE]

evaluation_window_ms == 800

has_pressed_action(cfg, button_name) ==
    is_some(get_actions_for_button_event(cfg, button_name, "PRESSED"))

has_held_action(cfg, button_name) ==
    is_some(get_actions_for_button_event(cfg, button_name, "HELD"))

get_hold_threshold(cfg, lg, button_name) ==
    get_hold_threshold_ms(cfg, button_name, lg.global_default_threshold_ms)

\* (IDLE, true)
track_first_signal(tracker, button_name, t, has_pressed, has_held) ==
    LET started == [state             |-> "EVALUATING",
                    first_signal_time |-> Some(t),
                    last_signal_time  |-> Some(t),
                    signal_count      |-> 1,
                    action_fired      |-> FALSE]
    IN  IF has_pressed /\ ~has_held
        THEN [tracker |-> [started EXCEPT !.action_fired = TRUE],
              events |-> <<ButtonEvent(button_name, "PRESSED")>>]
        ELSE [tracker |-> started, events |-> <<>>]

\* (EVALUATING, true)
track_signal(tracker, button_name, t, has_pressed, has_held) ==
    LET counted == [tracker EXCEPT !.signal_count = tracker.signal_count + 1,
                                   !.last_signal_time = Some(t)]
    IN  IF /\ counted.signal_count >= 2
           /\ ~counted.action_fired
           /\ has_held
           /\ has_pressed
        THEN [tracker |-> [counted EXCEPT !.action_fired = TRUE],
              events |-> <<ButtonEvent(button_name, "HELD")>>]
        ELSE [tracker |-> counted, events |-> <<>>]

\* variant: the end-of-window PRESSED does not look at action_fired
track_silence_fallback(tracker, button_name, t, has_pressed, has_held, threshold_ms) ==
    IF is_none(tracker.first_signal_time)
    THEN [tracker |-> tracker, events |-> <<>>]
    ELSE LET time_since_first == Max(t - unwrap(tracker.first_signal_time), 0)
             quick_release_threshold == 300
             quick == /\ ~tracker.action_fired
                      /\ has_pressed
                      /\ has_held
                      /\ time_since_first < quick_release_threshold
                      /\ time_since_first < threshold_ms
             fired1 == tracker.action_fired \/ quick
             held == ~fired1 /\ has_held /\ time_since_first >= threshold_ms
             fired2 == fired1 \/ held
             effective_window ==
                 IF has_held
                 THEN Max(evaluation_window_ms, threshold_ms + 100)
                 ELSE evaluation_window_ms
             over == time_since_first >= effective_window
             fallback == over /\ has_pressed /\ has_held
         IN  [tracker |-> IF over
                          THEN ButtonTracker_new
                          ELSE [tracker EXCEPT !.action_fired = fired2],
              events |->
                  (IF quick THEN <<ButtonEvent(button_name, "PRESSED")>> ELSE <<>>)
                  \o (IF held THEN <<ButtonEvent(button_name, "HELD")>> ELSE <<>>)
                  \o (IF fallback
                      THEN <<ButtonEvent(button_name, "PRESSED")>>
                      ELSE <<>>)
                  \o (IF over
                      THEN <<ButtonEvent(button_name, "RELEASED")>>
                      ELSE <<>>)]

\* (EVALUATING, false)
track_silence(tracker, button_name, t, has_pressed, has_held, threshold_ms) ==
    IF is_none(tracker.first_signal_time)
    THEN [tracker |-> tracker, events |-> <<>>]
    ELSE LET time_since_first == Max(t - unwrap(tracker.first_signal_time), 0)
             quick_release_threshold == 300
             quick == /\ ~tracker.action_fired
                      /\ has_pressed
                      /\ has_held
                      /\ time_since_first < quick_release_threshold
                      /\ time_since_first < threshold_ms
             fired1 == tracker.action_fired \/ quick
             held == ~fired1 /\ has_held /\ time_since_first >= threshold_ms
             fired2 == fired1 \/ held
             effective_window ==
                 IF has_held
                 THEN Max(evaluation_window_ms, threshold_ms + 100)
                 ELSE evaluation_window_ms
             over == time_since_first >= effective_window
             fallback == over /\ ~fired2 /\ has_pressed /\ has_held
         IN  [tracker |-> IF over
                          THEN ButtonTracker_new
                          ELSE [tracker EXCEPT !.action_fired = fired2],
              events |->
                  (IF quick THEN <<ButtonEvent(button_name, "PRESSED")>> ELSE <<>>)
                  \o (IF held THEN <<ButtonEvent(button_name, "HELD")>> ELSE <<>>)
                  \o (IF fallback
                      THEN <<ButtonEvent(button_name, "PRESSED")>>
                      ELSE <<>>)
                  \o (IF over
                      THEN <<ButtonEvent(button_name, "RELEASED")>>
                      ELSE <<>>)]

\* match (tracker.state, is_pressed)
track(tracker, button_name, is_pressed, t, cfg, lg) ==
    LET has_pressed == has_pressed_action(cfg, button_name)
        has_held == has_held_action(cfg, button_name)
        threshold_ms == get_hold_threshold(cfg, lg, button_name)
    IN  IF tracker.state = "IDLE" /\ is_pressed
        THEN track_first_signal(tracker, button_name, t, has_pressed, has_held)
        ELSE IF tracker.state = "EVALUATING" /\ is_pressed
        THEN track_signal(tracker, button_name, t, has_pressed, has_held)
        ELSE IF tracker.state = "EVALUATING" /\ ~is_pressed
        THEN track_silence(tracker, button_name, t, has_pressed, has_held,
                           threshold_ms)
        ELSE [tracker |-> tracker, events |-> <<>>]

\* data.len() < 8 || data[0] != 1 || data[2] != 3, on 0-based bytes
rejected(data) == Len(data) < 8 \/ data[1] # 1 \/ data[3] # 3

\* button_data: data[4], data[5], data[6] != 0, on 0-based bytes
button_data(data) == [i \in 1..3 |-> data[4 + i] # 0]

RECURSIVE track_from(_, _, _, _, _, _)
track_from(i, trs, data, t, cfg, lg) ==
    IF i > Len(ButtonOrder)
    THEN [trackers |-> trs, events |-> <<>>]
    ELSE LET b == ButtonOrder[i]
             r == track(trs[b], b, button_data(data)[i], t, cfg, lg)
             rest == track_from(i + 1, [trs EXCEPT ![b] = r.tracker], data, t,
                                cfg, lg)
         IN  [trackers |-> rest.trackers, events |-> r.events \o rest.events]

\* HoldIntentParser::new
HoldIntentParser_new == trackers = [b \in Buttons |-> ButtonTracker_new]

\* variant: a frame with a wrong byte 2 is parsed all the same
HoldIntentParser_parse_hid_data_lenient(trs, data, t, cfg, lg) ==
    IF Len(data) < 8 \/ data[1] # 1
    THEN [trackers |-> trs, events |-> <<>>]
    ELSE track_from(1, trs, data, t, cfg, lg)

\* HoldIntentParser::parse_hid_data
HoldIntentParser_parse_hid_data(trs, data, t, cfg, lg) ==
    IF rejected(data)
    THEN [trackers |-> trs, events |-> <<>>]
    ELSE track_from(1, trs, data, t, cfg, lg)

----------------------------------------------------------------------------
(* main.rs: the legacy InputActionManager.  A press is (timestamp, button); *)
(* expect, panic! and todo! end the program                                 *)

no_data_vec == <<1, 0, 3, 0, 0, 0, 0, 0>>

\* PhysicalButtonName::from_tuple
from_tuple(combination) ==
    IF combination = <<1, 0, 0>> THEN Some(ButtonOrder[1])
    ELSE IF combination = <<0, 1, 0>> THEN Some(ButtonOrder[2])
    ELSE IF combination = <<0, 0, 1>> THEN Some(ButtonOrder[3])
    ELSE None

\* the slice pattern [1, 0, 3, 0, button1, button2, button3, 0]
get_physical_button(data) ==
    IF /\ Len(data) = 8
       /\ data[1] = 1 /\ data[2] = 0 /\ data[3] = 3 /\ data[4] = 0
       /\ data[8] = 0
    THEN from_tuple(<<data[5], data[6], data[7]>>)
    ELSE None

ProcessWindowMs == 900

\* Instant::duration_since saturates at zero
duration_since(t, earlier) == Max(t - earlier, 0)

\* process_presses: retain, then the simultaneous-press branch or pop
process_presses(prs, t) ==
    LET retained == SelectSeq(prs, LAMBDA press :
                        duration_since(t, press.timestamp) < ProcessWindowMs)
    IN  IF Len(retained) > 1
        THEN [outcome |-> "todo", presses |-> retained]
        ELSE IF Len(retained) = 1
        THEN [outcome |-> "single", presses |-> SubSeq(retained, 1, 0)]
        ELSE [outcome |-> "none", presses |-> retained]

\* variant: the queue is processed only when 900 ms have passed
handle_raw_data_throttled(prs, last, data, t, lookup_ok) ==
    IF data = no_data_vec
    THEN [outcome |-> "returned", processed |-> "skipped", presses |-> prs,
          last_processed_time |-> last]
    ELSE LET name == get_physical_button(data)
         IN  IF is_none(name) \/ ~lookup_ok
             THEN [outcome |-> "panic", processed |-> "skipped", presses |-> prs,
                   last_processed_time |-> last]
             ELSE LET pushed == Append(prs, [timestamp |-> t,
                                             button |-> unwrap(name)])
                  IN  IF duration_since(t, last) >= ProcessWindowMs
                      THEN LET done == process_presses(pushed, t)
                           IN  IF done.outcome = "todo"
                               THEN [outcome |-> "panic", processed |-> "todo",
                                     presses |-> done.presses,
                                     last_processed_time |-> last]
                               ELSE [outcome |-> "returned",
                                     processed |-> done.outcome,
                                     presses |-> done.presses,
                                     last_processed_time |-> t]
                      ELSE [outcome |-> "returned", processed |-> "skipped",
                            presses |-> pushed, last_processed_time |-> last]

\* handle_raw_data; lookup_ok is whether get_action_for_physical_button reads
\* the config file and finds an action type, which it answers with Some; it
\* panics otherwise
handle_raw_data(prs, last, data, t, lookup_ok) ==
    IF data = no_data_vec
    THEN [outcome |-> "returned", processed |-> "skipped", presses |-> prs,
          last_processed_time |-> last]
    ELSE LET name == get_physical_button(data)
         IN  IF is_none(name) \/ ~lookup_ok
             THEN [outcome |-> "panic", processed |-> "skipped", presses |-> prs,
                   last_processed_time |-> last]
             ELSE LET pushed == Append(prs, [timestamp |-> t,
                                             button |-> unwrap(name)])
                  IN  IF \/ Len(pushed) = 1
                         \/ duration_since(t, last) >= ProcessWindowMs
                      THEN LET done == process_presses(pushed, t)
                           IN  IF done.outcome = "todo"
                               THEN [outcome |-> "panic", processed |-> "todo",
                                     presses |-> done.presses,
                                     last_processed_time |-> last]
                               ELSE [outcome |-> "returned",
                                     processed |-> done.outcome,
                                     presses |-> done.presses,
                                     last_processed_time |-> t]
                      ELSE [outcome |-> "returned", processed |-> "skipped",
                            presses |-> pushed, last_processed_time |-> last]

\* InputActionManager::new
InputActionManager_new ==
    /\ presses = <<>>
    /\ last_processed_time = 0

----------------------------------------------------------------------------
(* The state machine of the program *)

NoLevels == [b \in Buttons |-> FALSE]

\* nothing recorded: the run in progress is not being recorded for a replay
NoReplay ==
    [phase |-> "off", script |-> <<>>, first |-> <<>>, second |-> <<>>,
     residue |-> FALSE]

\* nothing computed yet
NoCalc == [outcome |-> "none"]

UnusedButton == [actions |-> {}, hold_threshold_time_ms |-> None]

ButtonConfigs ==
    [actions : SUBSET ButtonEventType,
     hold_threshold_time_ms : {None} \cup {Some(th) : th \in Thresholds}]

\* one pedal is operated, under every configuration of its button
Init ==
    /\ pedals = {"Button1"}
    /\ \E bcfg \in ButtonConfigs :
           config = [buttons |-> [b \in Buttons |->
                                      IF b \in pedals THEN bcfg ELSE UnusedButton],
                     settings |-> None]
    /\ \E g \in GlobalDefaults : logic = [global_default_threshold_ms |-> g]
    /\ machines = [b \in Buttons |-> new(initial_state)]
    /\ now = 0
    /\ call = [op |-> "none", levels |-> NoLevels, pre |-> machines, at |-> 0,
               lk |-> AllLocked]
    /\ events = <<>>
    /\ episode = [b \in Buttons |-> NoEpisode]
    /\ replay = NoReplay
    /\ calc = NoCalc
    /\ InputSimulator_new
    /\ HoldIntentParser_new
    /\ InputActionManager_new

\* the clock advances
Tick ==
    /\ now < MaxTicks * TickMs
    /\ now' = now + TickMs
    /\ UNCHANGED <<machines, config, logic, pedals, call, events, episode, replay,
                   calc,
                   simulator_vars, legacy_vars>>

\* HoldIntentInputActionManager::process_hid_data: a frame with the level of
\* every pedal arrives; lk is what the lookups of the call find of the lock
ProcessHidDataUnder(levels, lk) ==
    /\ \A b \in Buttons :
           /\ levels[b] => b \in pedals
           /\ (levels[b] /\ machines[b].current_state = "EVALUATING")
                  => machines[b].signal_count < MaxSignals
    /\ LET r == parse_hid_data(machines, levels, now, config, logic, lk)
       IN  /\ machines' = r.machines
           /\ events' = r.events
           /\ call' = [op |-> "process_hid_data", levels |-> levels,
                       pre |-> machines, at |-> now, lk |-> lk]
           /\ episode' = [b \in Buttons |->
                              episode_after(episode[b], machines[b], TRUE,
                                            levels[b], r.events, b)]
    /\ UNCHANGED <<config, logic, now, pedals, replay, calc,
                   simulator_vars, legacy_vars>>

\* the frame arrives while the configuration mutex is sound
ProcessHidData(levels) == ProcessHidDataUnder(levels, AllLocked)

\* what one timeout sweep makes of the present state
SweepOutcome ==
    LET r == process_button_timeouts(machines, now, config, logic, TRUE)
    IN  [machines |-> r.machines,
         events |-> r.events,
         call |-> [op |-> "process_button_timeouts", levels |-> NoLevels,
                   pre |-> machines, at |-> now, lk |-> AllLocked],
         episode |-> [b \in Buttons |->
                          episode_after(episode[b], machines[b], FALSE,
                                        FALSE, r.events, b)]]

\* HoldIntentInputActionManager::process_button_timeouts: the timeout sweep
ProcessButtonTimeouts ==
    /\ LET r == SweepOutcome
       IN  /\ machines' = r.machines
           /\ events' = r.events
           /\ call' = r.call
           /\ episode' = r.episode
    /\ UNCHANGED <<config, logic, now, pedals, replay, calc,
                   simulator_vars, legacy_vars>>

Next ==
    \/ Tick
    \/ \E levels \in [Buttons -> BOOLEAN] : ProcessHidData(levels)
    \/ ProcessButtonTimeouts

Spec == Init /\ [][Next]_vars

\* a frame starts an episode: it asserts pedals whose machines are IDLE
FirstSignal ==
    \E levels \in [Buttons -> BOOLEAN] :
        /\ \E b \in Buttons : levels[b]
        /\ \A b \in Buttons : levels[b] => machines[b].current_state = "IDLE"
        /\ ProcessHidData(levels)

\* the device falls silent after the first signal of an episode
NextLive ==
    \/ Tick
    \/ FirstSignal
    \/ ProcessButtonTimeouts

\* ENABLED <<ProcessButtonTimeouts>>_vars as a state predicate
SweepChanges ==
    LET r == SweepOutcome
    IN  <<r.machines, r.events, r.call, r.episode>>
            # <<machines, events, call, episode>>

\* the poll loop keeps running (specification, section 5): time keeps
\* advancing and the sweep keeps being invoked, WF_vars(Tick) and
\* WF_vars(ProcessButtonTimeouts), the latter written out with SweepChanges
\* for its enabling condition
SpecLive ==
    /\ Init /\ [][NextLive]_vars
    /\ WF_vars(Tick)
    /\ ([]<>(~SweepChanges) \/ []<><<ProcessButtonTimeouts>>_vars)

----------------------------------------------------------------------------
(* A recorded run, a reset of every machine, and the replay of the run *)

\* time between two calls of a recorded run
ReplayGaps == {TickMs, 3 * TickMs}

\* a recorded call: the entry point, its frame, and the time since the call
\* before it
ReplaySteps ==
    [op : {"process_hid_data"}, levels : [Buttons -> BOOLEAN], dt : ReplayGaps]
        \cup [op : {"process_button_timeouts"}, levels : {NoLevels}, dt : ReplayGaps]

run_step(ms, step, t, cfg, lg) ==
    IF step.op = "process_hid_data"
    THEN parse_hid_data(ms, step.levels, t, cfg, lg, AllLocked)
    ELSE process_button_timeouts(ms, t, cfg, lg, TRUE)

\* first run: a call on the machines as constructed, recorded with its events
ReplayFirst ==
    \E step \in ReplaySteps :
        /\ replay.phase \in {"off", "first"}
        /\ Len(replay.script) < MaxScript
        /\ \A b \in Buttons : step.levels[b] => b \in pedals
        /\ LET t == now + step.dt
               r == run_step(machines, step, t, config, logic)
           IN  /\ now' = t
               /\ machines' = r.machines
               /\ events' = r.events
               /\ replay' = [phase |-> "first",
                             script |-> Append(replay.script, step),
                             first |-> Append(replay.first, r.events),
                             second |-> <<>>,
                             residue |-> FALSE]
        /\ UNCHANGED <<config, logic, pedals, call, episode, calc,
                   simulator_vars, legacy_vars>>

\* ButtonStateMachine::reset on every machine, some time after the first run;
\* residue records that a machine was not in its constructed state
ReplayReset ==
    /\ replay.phase = "first"
    /\ \E gap \in {0} \cup ReplayGaps : now' = now + gap
    /\ machines' = [b \in Buttons |-> reset(machines[b], initial_state)]
    /\ events' = <<>>
    /\ replay' = [replay EXCEPT !.phase = "second",
                                !.residue = \E b \in Buttons :
                                               machines[b] # new(initial_state)]
    /\ UNCHANGED <<config, logic, pedals, call, episode, calc,
                   simulator_vars, legacy_vars>>

\* second run: the next recorded call, at the recorded distance in time
ReplayAgain ==
    /\ replay.phase = "second"
    /\ Len(replay.second) < Len(replay.script)
    /\ LET step == replay.script[Len(replay.second) + 1]
           t == now + step.dt
           r == run_step(machines, step, t, config, logic)
       IN  /\ now' = t
           /\ machines' = r.machines
           /\ events' = r.events
           /\ replay' = [replay EXCEPT !.second = Append(replay.second, r.events)]
    /\ UNCHANGED <<config, logic, pedals, call, episode, calc,
                   simulator_vars, legacy_vars>>

NextReplay ==
    \/ ReplayFirst
    \/ ReplayReset
    \/ ReplayAgain

SpecReplay == Init /\ [][NextReplay]_vars

----------------------------------------------------------------------------
(* A device with and without a hold threshold of its own *)

\* the operated pedal has a HELD action, with and without a threshold of its
\* own; the device settings carry a threshold or none
InitThreshold ==
    /\ pedals = {"Button1"}
    /\ \E bcfg \in ButtonConfigs :
           /\ "HELD" \in bcfg.actions
           /\ "RELEASING" \notin bcfg.actions
           /\ \E dev \in {None} \cup {Some(th) : th \in DeviceThresholds} :
                  config = [buttons |-> [b \in Buttons |->
                                             IF b \in pedals THEN bcfg
                                                             ELSE UnusedButton],
                            settings |-> dev]
    /\ \E g \in GlobalDefaults : logic = [global_default_threshold_ms |-> g]
    /\ machines = [b \in Buttons |-> new(initial_state)]
    /\ now = 0
    /\ call = [op |-> "none", levels |-> NoLevels, pre |-> machines, at |-> 0,
               lk |-> AllLocked]
    /\ events = <<>>
    /\ episode = [b \in Buttons |-> NoEpisode]
    /\ replay = NoReplay
    /\ calc = NoCalc
    /\ InputSimulator_new
    /\ HoldIntentParser_new
    /\ InputActionManager_new

SpecThreshold == InitThreshold /\ [][Next]_vars

----------------------------------------------------------------------------
(* The quick-release threshold of any hold threshold a configuration file *)
(* can carry (hold_threshold_time_ms: Option<u64>)                         *)

U64Max == [i \in 1 .. U64Limbs |-> Limb - 1]

\* hold thresholds: the small ones, the limbs at their ends, and the ones
\* around the largest whose product with 60 fits a u64
HoldThresholdInputs ==
    {u64(n) : n \in 0 .. 40}
        \cup {u64(th) : th \in Thresholds \cup GlobalDefaults \cup DeviceThresholds}
        \cup {u64(n) : n \in {333, 334, 1000, 65535, 65536}}
        \cup [1 .. U64Limbs -> {0, 1, Limb - 1}]
        \cup {LET safe == div_small(U64Max, QuickReleasePercent)
              IN  [safe EXCEPT ![1] = safe[1] + d] : d \in 0 .. 1}

GetQuickReleaseThresholdMs ==
    /\ calc = NoCalc
    /\ \E hold_threshold \in HoldThresholdInputs, build \in Builds :
           calc' = [hold_threshold |-> hold_threshold, build |-> build]
                       @@ quick_release_threshold_u64(hold_threshold, build)
    /\ UNCHANGED <<machines, config, logic, now, pedals, call, events, episode,
                   replay,
                   simulator_vars, legacy_vars>>

NextQuick == GetQuickReleaseThresholdMs

SpecQuick == Init /\ [][NextQuick]_vars

----------------------------------------------------------------------------
(* Every pedal is operated *)

\* a pressed-only button, and a pressed+held one with a RELEASING action;
\* the middle pedal has the one, the outer pedals have the other
MultiConfigs ==
    {[actions |-> {"PRESSED"}, hold_threshold_time_ms |-> None],
     [actions |-> {"PRESSED", "HELD", "RELEASING"},
      hold_threshold_time_ms |-> Some(TickMs)]}

InitMulti ==
    /\ pedals = Buttons
    /\ \E outer \in MultiConfigs, middle \in MultiConfigs :
           /\ outer # middle
           /\ config = [buttons |-> [b \in Buttons |->
                                         IF b = ButtonOrder[2] THEN middle
                                                               ELSE outer],
                        settings |-> None]
    /\ \E g \in GlobalDefaults : logic = [global_default_threshold_ms |-> g]
    /\ machines = [b \in Buttons |-> new(initial_state)]
    /\ now = 0
    /\ call = [op |-> "none", levels |-> NoLevels, pre |-> machines, at |-> 0,
               lk |-> AllLocked]
    /\ events = <<>>
    /\ episode = [b \in Buttons |-> NoEpisode]
    /\ replay = NoReplay
    /\ calc = NoCalc
    /\ InputSimulator_new
    /\ HoldIntentParser_new
    /\ InputActionManager_new

TickMulti ==
    /\ now < MultiTicks * TickMs
    /\ Tick

NextMulti ==
    \/ TickMulti
    \/ \E levels \in [Buttons -> BOOLEAN] : ProcessHidData(levels)
    \/ ProcessButtonTimeouts

SpecMulti == InitMulti /\ [][NextMulti]_vars

----------------------------------------------------------------------------
(* The configuration mutex gets poisoned: a thread panicked holding it *)

\* a poisoned mutex stays poisoned, so a lookup that fails is followed by
\* failing lookups only
LockOutcomes ==
    {lk \in [config : BOOLEAN, quick : BOOLEAN, releasing : BOOLEAN] :
         /\ lk.quick => lk.config
         /\ lk.releasing => lk.quick}

NoneLocked == [config |-> FALSE, quick |-> FALSE, releasing |-> FALSE]

\* the last call left the mutex poisoned
Poisoned == ~call.lk.releasing

ProcessHidDataLocking ==
    \E levels \in [Buttons -> BOOLEAN], lk \in LockOutcomes :
        /\ Poisoned => lk = NoneLocked
        /\ ProcessHidDataUnder(levels, lk)

\* with the mutex poisoned the sweep finds no HELD action and does nothing
ProcessButtonTimeoutsLocking ==
    /\ ~Poisoned
    /\ ProcessButtonTimeouts

NextLock ==
    \/ Tick
    \/ ProcessHidDataLocking
    \/ ProcessButtonTimeoutsLocking

\* the operated pedal has a hold threshold of its own, which differs from the
\* global default a failed lookup falls back to
InitLock ==
    /\ Init
    /\ \A b \in pedals : is_some(config.buttons[b].hold_threshold_time_ms)
    /\ \A b \in pedals, th \in Thresholds :
           th <= unwrap(config.buttons[b].hold_threshold_time_ms)

SpecLock == InitLock /\ [][NextLock]_vars

----------------------------------------------------------------------------
(* The methods of ButtonStateMachine, called in any order on the machine of *)
(* an operated pedal; new is the construction in Init                      *)

ApiCall(b, name, sm) ==
    /\ b \in pedals
    /\ machines' = [machines EXCEPT ![b] = sm]
    /\ call' = [op |-> name, levels |-> NoLevels, pre |-> machines, at |-> now,
                lk |-> AllLocked]
    /\ events' = <<>>
    /\ UNCHANGED <<config, logic, now, pedals, episode, replay, calc,
                   simulator_vars, legacy_vars>>

ApiRecordSignal ==
    \E b \in Buttons :
        /\ machines[b].signal_count < MaxSignals
        /\ ApiCall(b, "record_signal", record_signal(machines[b], now))

ApiTransitionTo ==
    \E b \in Buttons, new_state \in ButtonState :
        ApiCall(b, "transition_to", transition_to(machines[b], new_state))

ApiMarkActionFired ==
    \E b \in Buttons :
        ApiCall(b, "mark_action_fired", mark_action_fired(machines[b]))

ApiReset ==
    \E b \in Buttons :
        ApiCall(b, "reset", reset(machines[b], initial_state))

NextApi ==
    \/ Tick
    \/ ApiRecordSignal
    \/ ApiTransitionTo
    \/ ApiMarkActionFired
    \/ ApiReset

SpecApi == Init /\ [][NextApi]_vars

----------------------------------------------------------------------------
(* HoldIntentLogic behind the StateMachineLogic trait alone: the machine    *)
(* that process_input leaves is the machine of the next process_input, and  *)
(* it is reset when the returned transition is Reset                        *)

\* StateTransition::Reset, "Reset the state machine"; Continue and
\* EmitEvents leave the machine as process_input left it
follow_transition(sm, tr) ==
    IF tr.kind = "Reset" THEN reset(sm, initial_state) ELSE sm

\* StateMachineLogic::process_input on the machine of an operated pedal
ProcessInput ==
    \E b \in pedals, is_pressed \in BOOLEAN :
        /\ (is_pressed /\ machines[b].current_state \in {"EVALUATING", "RELEASING"})
               => machines[b].signal_count < MaxSignals
        /\ LET st == process_input(machines[b], ButtonInput(b, is_pressed), now,
                                   config, logic, AllLocked)
           IN  /\ machines' = [machines EXCEPT
                                  ![b] = follow_transition(st.sm, st.tr)]
               /\ events' = st.tr.events
               /\ call' = [op |-> "process_input",
                           levels |-> [NoLevels EXCEPT ![b] = is_pressed],
                           pre |-> machines, at |-> now, lk |-> AllLocked]
        /\ UNCHANGED <<config, logic, now, pedals, episode, replay, calc,
                   simulator_vars, legacy_vars>>

NextLogic ==
    \/ Tick
    \/ ProcessInput

SpecLogic == Init /\ [][NextLogic]_vars

----------------------------------------------------------------------------
(* The input simulator: the actions of execute_actions in any order, and    *)
(* process_scheduled_releases, which process_timers calls from the loop     *)

SimTicks == 1
MaxPresses == 2
MaxScheduled == 2

Durations == {0, TickMs}

\* the orders in which the keys of a set can be iterated
Orders(S) ==
    {o \in [1..Cardinality(S) -> S] :
        \A i, j \in DOMAIN o : i # j => o[i] # o[j]}

InitSimulator ==
    /\ Init
    /\ \A b \in Buttons : config.buttons[b] = UnusedButton

TickSimulator ==
    /\ now < SimTicks * TickMs
    /\ Tick

\* the key presses made so far, over all keys
presses_made ==
    LET count[S \in SUBSET Keys] ==
            IF S = {} THEN 0
            ELSE LET key == CHOOSE k \in S : TRUE
                 IN  keylog.serial[key] + count[S \ {key}]
    IN  count[Keys]

\* what the last operation was; for process_scheduled_releases, what it saw
SimulatorCall(name, failing) ==
    call' = IF name = "process_scheduled_releases"
            THEN [op |-> name, pressed |-> pressed_keys,
                  scheduled |-> scheduled_releases, at |-> now,
                  failing |-> failing]
            ELSE [op |-> name]

\* ExecutableAction::KeyPress
KeyPress ==
    \E key \in Keys, auto_release \in BOOLEAN, release_ok \in BOOLEAN :
        /\ key \notin pressed_keys => presses_made < MaxPresses
        /\ pressed_keys' = execute_key_press(pressed_keys, key, auto_release,
                                             release_ok)
        /\ keylog' = [keylog EXCEPT
                          !.serial[key] = IF key \in pressed_keys THEN @ ELSE @ + 1,
                          !.pressed_at[key] =
                              IF key \in pressed_keys THEN @ ELSE now,
                          !.released = <<>>]
        /\ SimulatorCall("execute_key_press", {})
        /\ UNCHANGED <<scheduled_releases, now, events, detector_vars, legacy_vars>>

\* ExecutableAction::KeyRelease
KeyRelease ==
    \E key \in Keys :
        /\ pressed_keys' = execute_key_release(pressed_keys, key)
        /\ keylog' = [keylog EXCEPT !.released = <<>>]
        /\ SimulatorCall("execute_key_release", {})
        /\ UNCHANGED <<scheduled_releases, now, events, detector_vars, legacy_vars>>

\* ExecutableAction::ReleaseAfter, ReleaseAll and ReleaseAllAfter
ScheduleReleaseAllAfter ==
    \E duration_ms \in Durations, order \in Orders(pressed_keys) :
        /\ Len(scheduled_releases) + Len(order) <= MaxScheduled
        /\ scheduled_releases' =
               schedule_release_all_after(scheduled_releases, order, now,
                                          duration_ms)
        /\ keylog' = [keylog EXCEPT
                          !.scheduled_for =
                              @ \o [i \in DOMAIN order |-> keylog.serial[order[i]]],
                          !.released = <<>>]
        /\ SimulatorCall("schedule_release_all_after", {})
        /\ UNCHANGED <<pressed_keys, now, events, detector_vars, legacy_vars>>

\* InputSimulator::process_scheduled_releases
ProcessScheduledReleases ==
    \E failing \in SUBSET DOMAIN scheduled_releases :
        LET r == process_scheduled_releases(pressed_keys, scheduled_releases, now,
                                            failing)
        IN  /\ pressed_keys' = r.pressed_keys
            /\ scheduled_releases' = r.scheduled_releases
            /\ keylog' = [keylog EXCEPT
                              !.scheduled_for = retain(@, r.kept),
                              !.released =
                                  [j \in DOMAIN r.released |->
                                      LET i == r.released[j]
                                          key == scheduled_releases[i].key
                                      IN  [key |-> key,
                                           release_time |->
                                               scheduled_releases[i].release_time,
                                           entry_for |-> keylog.scheduled_for[i],
                                           press |-> keylog.serial[key],
                                           pressed_at |-> keylog.pressed_at[key]]]]
            /\ SimulatorCall("process_scheduled_releases", failing)
            /\ UNCHANGED <<now, events, detector_vars, legacy_vars>>

NextSimulator ==
    \/ TickSimulator
    \/ KeyPress
    \/ KeyRelease
    \/ ScheduleReleaseAllAfter
    \/ ProcessScheduledReleases

SpecSimulator == InitSimulator /\ [][NextSimulator]_vars

----------------------------------------------------------------------------
(* The legacy parser: frames as the device read returns them, well formed   *)
(* or not, handed to HoldIntentParser::parse_hid_data                       *)

LegacyTicks == 5
\* the read loop's frames are further apart than the detector's ticks
LegacyTickMs == 2 * TickMs

\* hold thresholds under, inside and past the evaluation window
LegacyThresholds == {100, evaluation_window_ms}

\* a frame of the given length: byte 0, byte 2 and the byte of Button1
Frame(len, byte0, byte2, level) ==
    [i \in 1..len |->
        IF i = 1 THEN byte0
        ELSE IF i = 3 THEN byte2
        ELSE IF i = 5 THEN level
        ELSE 0]

\* lengths, report ids and report types besides the well-formed 8, 1 and 3
FrameLengths == {2, 7}
ReportIds == {2}
ReportTypes == {0}
Levels == {0, 1}

\* the well-formed frames and the frames that are malformed in one way
Frames ==
    UNION {{Frame(8, 1, 3, level)}
           \cup {Frame(len, 1, 3, level) : len \in FrameLengths}
           \cup {Frame(8, byte0, 3, level) : byte0 \in ReportIds}
           \cup {Frame(8, 1, byte2, level) : byte2 \in ReportTypes}
           : level \in Levels}

NoLegacyEpisode == [started |-> FALSE, PRESSED |-> 0, HELD |-> 0, RELEASED |-> 0]

\* an episode of the tracker starts with the asserted signal that finds it
\* IDLE; its record is kept until the next episode of the button starts
legacy_episode_after(ep, pre, post, evs, button_name) ==
    LET starts == pre.state = "IDLE" /\ post.state = "EVALUATING"
        base == IF starts THEN [NoLegacyEpisode EXCEPT !.started = TRUE] ELSE ep
    IN  [started  |-> base.started,
         PRESSED  |-> Min(base.PRESSED + CountOf(evs, button_name, "PRESSED"),
                          CountCap),
         HELD     |-> Min(base.HELD + CountOf(evs, button_name, "HELD"), CountCap),
         RELEASED |-> Min(base.RELEASED + CountOf(evs, button_name, "RELEASED"),
                          CountCap)]

InitLegacy ==
    /\ pedals = {"Button1"}
    /\ \E actions \in SUBSET {"PRESSED", "HELD"},
          threshold \in {None} \cup {Some(th) : th \in LegacyThresholds} :
           config = [buttons |-> [b \in Buttons |->
                                      IF b \in pedals
                                      THEN [actions |-> actions,
                                            hold_threshold_time_ms |-> threshold]
                                      ELSE UnusedButton],
                     settings |-> None]
    /\ \E g \in GlobalDefaults : logic = [global_default_threshold_ms |-> g]
    /\ machines = [b \in Buttons |-> new(initial_state)]
    /\ now = 0
    /\ call = [op |-> "none"]
    /\ events = <<>>
    /\ episode = [b \in Buttons |-> NoLegacyEpisode]
    /\ replay = NoReplay
    /\ calc = NoCalc
    /\ InputSimulator_new
    /\ HoldIntentParser_new
    /\ InputActionManager_new

TickLegacy ==
    /\ now < LegacyTicks * LegacyTickMs
    /\ now' = now + LegacyTickMs
    /\ UNCHANGED <<machines, config, logic, pedals, call, events, episode, replay,
                   calc, simulator_vars, legacy_vars>>

\* the read loop hands the bytes it read to parse_hid_data
ParseHidData ==
    \E data \in Frames :
        LET r == HoldIntentParser_parse_hid_data(trackers, data, now, config,
                                                 logic)
        IN  /\ \A b \in Buttons :
                   r.trackers[b].signal_count <= MaxSignals
            /\ trackers' = r.trackers
            /\ events' = r.events
            /\ call' = [op |-> "parse_hid_data", data |-> data, pre |-> trackers,
                        at |-> now]
            /\ episode' = [b \in Buttons |->
                              legacy_episode_after(episode[b], trackers[b],
                                                   r.trackers[b], r.events, b)]
            /\ UNCHANGED <<machines, config, logic, now, pedals, replay, calc,
                           simulator_vars, presses, last_processed_time>>

NextLegacy ==
    \/ TickLegacy
    \/ ParseHidData

SpecLegacy == InitLegacy /\ [][NextLegacy]_vars

----------------------------------------------------------------------------
(* The legacy manager: the read loop of main hands every 8-byte buffer it   *)
(* read to handle_raw_data, until a panic ends the program                  *)

ManagerTicks == 4
ManagerTickMs == 3 * TickMs

PedalBytes == {0, 1}

\* the buffers of the read loop: every combination of the three pedal bytes,
\* a pedal byte that is not 1, a wrong first byte and a set last byte
ManagerFrames ==
    {<<1, 0, 3, 0, b1, b2, b3, 0>> : b1 \in PedalBytes, b2 \in PedalBytes,
                                     b3 \in PedalBytes}
        \cup {<<1, 0, 3, 0, 2, 0, 0, 0>>, <<2, 0, 3, 0, 1, 0, 0, 0>>,
              <<1, 0, 3, 0, 1, 0, 0, 1>>}

\* no button has actions of the detector; the manager reads its own file
InitManager == InitSimulator

\* the program runs until a panic
Running == call.op = "handle_raw_data" => call.outcome # "panic"

TickManager ==
    /\ Running
    /\ now < ManagerTicks * ManagerTickMs
    /\ now' = now + ManagerTickMs
    /\ UNCHANGED <<machines, config, logic, pedals, call, events, episode, replay,
                   calc, simulator_vars, legacy_vars>>

\* the loop of main: device.read_timeout filled buf, handle_raw_data(&buf, now)
HandleRawData ==
    \E data \in ManagerFrames, lookup_ok \in BOOLEAN :
        LET r == handle_raw_data(presses, last_processed_time, data, now,
                                 lookup_ok)
        IN  /\ Running
            /\ presses' = r.presses
            /\ last_processed_time' = r.last_processed_time
            /\ call' = [op |-> "handle_raw_data", data |-> data, at |-> now,
                        last |-> last_processed_time, queued |-> presses,
                        outcome |-> r.outcome, processed |-> r.processed]
            /\ UNCHANGED <<now, events, trackers, detector_vars, simulator_vars>>

NextManager ==
    \/ TickManager
    \/ HandleRawData

SpecManager == InitManager /\ [][NextManager]_vars

----------------------------------------------------------------------------
(* Vocabulary of the properties *)

HasPressed(b) == "PRESSED" \in config.buttons[b].actions
HasHeld(b) == "HELD" \in config.buttons[b].actions
HasReleasing(b) == "RELEASING" \in config.buttons[b].actions

PressedAndHeld(b) == HasPressed(b) /\ HasHeld(b)
HeldOnly(b) == HasHeld(b) /\ ~HasPressed(b)
PressedOnly(b) == HasPressed(b) /\ ~HasHeld(b)

\* the resolved hold threshold of the button
ThresholdMs(b) ==
    get_hold_threshold_ms(config, b, logic.global_default_threshold_ms)

\* max(200, 60% of threshold_ms)
QuickReleaseMs(b) == Max(200, (ThresholdMs(b) * 60) \div 100)

\* the last call was a frame that carried this level for the button
SignalCall(b, is_pressed) ==
    call.op = "process_hid_data" /\ call.levels[b] = is_pressed

SweepCall == call.op = "process_button_timeouts"

Pre(b) == call.pre[b]

\* time since the first signal of the button, as the last call saw it
ElapsedMs(b) == call.at - unwrap(Pre(b).first_signal_time)

\* the last call dispatched a de-asserted signal to a machine that was not IDLE
ReleaseCall(b) ==
    /\ SignalCall(b, FALSE)
    /\ Pre(b).current_state # "IDLE"
    /\ is_some(Pre(b).first_signal_time)

\* the last call saw the button in EVALUATING with the threshold elapsed
ThresholdSeen(b) ==
    /\ SignalCall(b, TRUE) \/ SweepCall
    /\ Pre(b).current_state = "EVALUATING"
    /\ is_some(Pre(b).first_signal_time)
    /\ ElapsedMs(b) >= ThresholdMs(b)

\* the last call dispatched the first de-asserted signal of the episode: the
\* button was asserted until then
FirstReleaseCall(b) == ReleaseCall(b) /\ episode[b].releases = 1

Emitted(b, event_type) == CountOf(events, b, event_type)

Cleared(sm) == sm = new(initial_state)

----------------------------------------------------------------------------
(* C1: quick release of a pressed+held button *)

\* C1, as claimed: a pressed+held button released at elapsed <
\* max(200, 60% of threshold_ms) has emitted exactly one PRESSED event and no
\* HELD event in that episode.
C1_AsClaimed ==
    \A b \in Buttons :
        (PressedAndHeld(b) /\ FirstReleaseCall(b) /\ ElapsedMs(b) < QuickReleaseMs(b))
            => episode[b].PRESSED = 1 /\ episode[b].HELD = 0

\* C1, amended: a pressed+held button in EVALUATING for which no action has
\* fired yet, released at elapsed < max(200, 60% of threshold_ms), emits
\* exactly one PRESSED event and no HELD event: in the release call and in
\* the episode as a whole.
C1_QuickReleaseEmitsPressed ==
    \A b \in Buttons :
        (/\ PressedAndHeld(b)
         /\ ReleaseCall(b)
         /\ Pre(b).current_state = "EVALUATING"
         /\ ~Pre(b).action_fired
         /\ ElapsedMs(b) < QuickReleaseMs(b))
            => /\ Emitted(b, "PRESSED") = 1
               /\ Emitted(b, "HELD") = 0
               /\ episode[b].PRESSED = 1
               /\ episode[b].HELD = 0

C1_Witness ==
    \E b \in Buttons :
        /\ PressedAndHeld(b)
        /\ ReleaseCall(b)
        /\ Pre(b).current_state = "EVALUATING"
        /\ ~Pre(b).action_fired
        /\ ElapsedMs(b) > 0
        /\ ElapsedMs(b) < QuickReleaseMs(b)
        /\ Emitted(b, "PRESSED") = 1

----------------------------------------------------------------------------
(* C2: a held-only button held past the threshold *)

\* C2, as claimed: a held-only button still asserted at or after threshold_ms
\* emits exactly one HELD event, with the same outcome (the HELD event, the
\* HELD state, the action marked as fired) whether an asserted signal or the
\* timeout sweep observes the threshold.
C2_AsClaimed ==
    \A b \in Buttons :
        (HeldOnly(b) /\ ThresholdSeen(b) /\ ~Pre(b).action_fired)
            => /\ Emitted(b, "HELD") = 1
               /\ episode[b].HELD = 1
               /\ machines[b].current_state = "HELD"
               /\ machines[b].action_fired

----------------------------------------------------------------------------
(* C3: a held-only button released before the threshold *)

\* C3, as claimed: a held-only button released strictly before threshold_ms
\* emits zero events in that episode.
C3_AsClaimed ==
    \A b \in Buttons :
        (HeldOnly(b) /\ FirstReleaseCall(b) /\ ElapsedMs(b) < ThresholdMs(b))
            => /\ episode[b].PRESSED = 0
               /\ episode[b].HELD = 0
               /\ episode[b].RELEASING = 0

\* C3, amended: a held-only button released strictly before threshold_ms
\* emits no PRESSED and no HELD event in that episode; the release emits one
\* RELEASING event when a RELEASING action is configured, and nothing
\* otherwise.
C3_EarlyReleaseHeldOnly ==
    \A b \in Buttons :
        (HeldOnly(b) /\ ReleaseCall(b) /\ ElapsedMs(b) < ThresholdMs(b))
            => /\ episode[b].PRESSED = 0
               /\ episode[b].HELD = 0
               /\ Emitted(b, "PRESSED") = 0
               /\ Emitted(b, "HELD") = 0
               /\ episode[b].RELEASING = (IF HasReleasing(b) THEN 1 ELSE 0)
               /\ Emitted(b, "RELEASING") = (IF HasReleasing(b) THEN 1 ELSE 0)

C3_Witness ==
    \E b \in Buttons :
        /\ HeldOnly(b)
        /\ ReleaseCall(b)
        /\ ElapsedMs(b) > 0
        /\ ElapsedMs(b) < ThresholdMs(b)
        /\ Pre(b).signal_count >= 2
        /\ Emitted(b, "RELEASING") = 1

----------------------------------------------------------------------------
(* C4: the end of an episode *)

\* C4, as claimed: when a de-asserted signal has been dispatched for a button
\* whose machine was not IDLE, the machine is IDLE again with every field
\* cleared.
C4_AsClaimed ==
    \A b \in Buttons :
        ReleaseCall(b) => Cleared(machines[b])

----------------------------------------------------------------------------
(* C5: the dead zone of a pressed+held button *)

\* C5, as claimed: a pressed+held button released at quick-release threshold
\* <= elapsed < threshold_ms has emitted no PRESSED and no HELD event in that
\* episode, and the machine has left EVALUATING.
C5_AsClaimed ==
    \A b \in Buttons :
        (/\ PressedAndHeld(b)
         /\ FirstReleaseCall(b)
         /\ QuickReleaseMs(b) <= ElapsedMs(b)
         /\ ElapsedMs(b) < ThresholdMs(b))
            => /\ episode[b].PRESSED = 0
               /\ episode[b].HELD = 0
               /\ machines[b].current_state \in {"RELEASING", "IDLE"}

\* C5, amended: a release of a pressed+held button at quick-release threshold
\* <= elapsed < threshold_ms emits no PRESSED and no HELD event, and the
\* episode has emitted none when no action had fired before the release; the
\* logic leaves EVALUATING for RELEASING or asks for a reset, and the machine
\* is IDLE when the dispatch returns.
C5_DeadZone ==
    \A b \in Buttons :
        (/\ PressedAndHeld(b)
         /\ ReleaseCall(b)
         /\ QuickReleaseMs(b) <= ElapsedMs(b)
         /\ ElapsedMs(b) < ThresholdMs(b))
            => /\ Emitted(b, "PRESSED") = 0
               /\ Emitted(b, "HELD") = 0
               /\ ~Pre(b).action_fired
                      => episode[b].PRESSED = 0 /\ episode[b].HELD = 0
               /\ LET step == process_input(Pre(b), ButtonInput(b, FALSE), call.at,
                                            config, logic, AllLocked)
                  IN  \/ step.sm.current_state = "RELEASING"
                      \/ step.tr.kind = "Reset"
               /\ machines[b].current_state = "IDLE"

C5_Witness ==
    \E b \in Buttons :
        /\ PressedAndHeld(b)
        /\ ReleaseCall(b)
        /\ Pre(b).current_state = "EVALUATING"
        /\ ~Pre(b).action_fired
        /\ QuickReleaseMs(b) < ElapsedMs(b)
        /\ ElapsedMs(b) < ThresholdMs(b)
        /\ events = <<>>

----------------------------------------------------------------------------
(* C6: a pressed+held button held past the threshold *)

\* C6, as claimed: a pressed+held button that stays asserted past
\* threshold_ms, seen by an asserted signal or by the timeout sweep, has
\* emitted exactly one HELD event in that episode and its machine is in HELD.
C6_AsClaimed ==
    \A b \in Buttons :
        (PressedAndHeld(b) /\ ThresholdSeen(b) /\ episode[b].releases = 0)
            => /\ episode[b].HELD = 1
               /\ episode[b].PRESSED = 0
               /\ machines[b].current_state = "HELD"

\* C6, amended: such a button has emitted exactly one HELD event in that
\* episode; its machine is in HELD afterwards when an asserted signal saw the
\* threshold or when the sweep fired the HELD event, and it is still in
\* EVALUATING after a sweep that found the HELD event already fired by a
\* repeated signal.
C6_HeldPastThreshold ==
    \A b \in Buttons :
        (PressedAndHeld(b) /\ ThresholdSeen(b) /\ episode[b].releases = 0)
            => /\ episode[b].HELD = 1
               /\ episode[b].PRESSED = 0
               /\ (SignalCall(b, TRUE) \/ ~Pre(b).action_fired)
                      => machines[b].current_state = "HELD"
               /\ (SweepCall /\ Pre(b).action_fired)
                      => machines[b].current_state = "EVALUATING"

C6_Witness ==
    \E b \in Buttons :
        /\ PressedAndHeld(b)
        /\ ThresholdSeen(b)
        /\ episode[b].releases = 0
        /\ SignalCall(b, TRUE)
        /\ ~Pre(b).action_fired
        /\ Emitted(b, "HELD") = 1
        /\ machines[b].current_state = "HELD"

----------------------------------------------------------------------------
(* C7: release from HELD *)

\* C7: a de-asserted signal for a button in HELD emits exactly one RELEASING
\* event when a RELEASING action is configured; otherwise it emits no event
\* and the machine is reset to IDLE.
C7_ReleaseFromHeld ==
    \A b \in Buttons :
        (SignalCall(b, FALSE) /\ Pre(b).current_state = "HELD")
            => /\ Emitted(b, "PRESSED") = 0
               /\ Emitted(b, "HELD") = 0
               /\ HasReleasing(b) => Emitted(b, "RELEASING") = 1
               /\ ~HasReleasing(b)
                      => Emitted(b, "RELEASING") = 0 /\ Cleared(machines[b])

C7_Witness ==
    \E b \in Buttons :
        /\ SignalCall(b, FALSE)
        /\ Pre(b).current_state = "HELD"
        /\ HasReleasing(b)
        /\ Emitted(b, "RELEASING") = 1

----------------------------------------------------------------------------
(* C8: action_fired *)

\* C8: once action_fired is true no PRESSED and no HELD event is emitted for
\* the button, by process_input or by the sweep, until the machine is reset;
\* an episode emits at most one event among PRESSED and HELD.
C8_FiredOnce ==
    \A b \in Buttons :
        /\ Pre(b).action_fired
               => Emitted(b, "PRESSED") = 0 /\ Emitted(b, "HELD") = 0
        /\ episode[b].PRESSED + episode[b].HELD <= 1

C8_Witness ==
    \E b \in Buttons :
        /\ Pre(b).action_fired
        /\ Pre(b).current_state = "EVALUATING"
        /\ SignalCall(b, FALSE)
        /\ PressedAndHeld(b)
        /\ ElapsedMs(b) < QuickReleaseMs(b)
        /\ episode[b].HELD = 1

----------------------------------------------------------------------------
(* C9: a pressed-only button *)

\* C9: a pressed-only button in IDLE that receives an asserted signal moves
\* to EVALUATING and emits exactly one PRESSED event in that call; no later
\* signal of the episode emits another PRESSED event.
C9_PressedOnly ==
    \A b \in Buttons :
        PressedOnly(b)
            => /\ (SignalCall(b, TRUE) /\ Pre(b).current_state = "IDLE")
                      => /\ machines[b].current_state = "EVALUATING"
                         /\ Emitted(b, "PRESSED") = 1
                         /\ Emitted(b, "HELD") = 0
               /\ Pre(b).current_state # "IDLE" => Emitted(b, "PRESSED") = 0
               /\ episode[b].PRESSED <= 1

C9_Witness ==
    \E b \in Buttons :
        /\ PressedOnly(b)
        /\ SignalCall(b, FALSE)
        /\ Pre(b).current_state = "EVALUATING"
        /\ Pre(b).signal_count >= 2
        /\ episode[b].PRESSED = 1

----------------------------------------------------------------------------
(* C10: no machine stays in RELEASING *)

\* C10: after every dispatch call no machine is in RELEASING: the machine
\* that emitted a RELEASING event is reset to IDLE within the same call.
C10_NoStuckReleasing ==
    \A b \in Buttons :
        /\ machines[b].current_state # "RELEASING"
        /\ Emitted(b, "RELEASING") > 0 => Cleared(machines[b])

C10_Witness ==
    \E b \in Buttons :
        /\ SignalCall(b, FALSE)
        /\ Pre(b).current_state = "EVALUATING"
        /\ Emitted(b, "RELEASING") = 1
        /\ Emitted(b, "PRESSED") = 1
        /\ Cleared(machines[b])

----------------------------------------------------------------------------
(* C11: the timeout sweep fires HELD once *)

\* C11: the sweep, applied to a button in EVALUATING with a HELD action, the
\* threshold elapsed and action_fired false, emits exactly one HELD event,
\* marks action_fired and moves the button to HELD; a later sweep of the
\* same episode emits nothing for the button and leaves it as it is.
C11_SweepFiresHeldOnce ==
    \A b \in Buttons :
        /\ (/\ SweepCall
            /\ HasHeld(b)
            /\ ThresholdSeen(b)
            /\ ~Pre(b).action_fired)
               => /\ Emitted(b, "HELD") = 1
                  /\ Emitted(b, "PRESSED") = 0
                  /\ Emitted(b, "RELEASING") = 0
                  /\ machines[b].action_fired
                  /\ machines[b].current_state = "HELD"
        /\ (SweepCall /\ (Pre(b).action_fired \/ episode[b].HELD > Emitted(b, "HELD")))
               => /\ \A ty \in ButtonEventType : Emitted(b, ty) = 0
                  /\ machines[b] = Pre(b)

C11_Witness ==
    \E b \in Buttons :
        /\ SweepCall
        /\ HeldOnly(b)
        /\ Pre(b).current_state = "HELD"
        /\ Pre(b).action_fired
        /\ Pre(b).signal_count = 1
        /\ call.at > unwrap(Pre(b).first_signal_time) + ThresholdMs(b)
        /\ episode[b].HELD = 1
        /\ events = <<>>

----------------------------------------------------------------------------
(* C12: the sweep makes HELD happen without further signals *)

\* the button has just entered EVALUATING with a HELD action to fire, early
\* enough for its threshold to elapse within the clock's range
AwaitingHold(b) ==
    /\ HasHeld(b)
    /\ machines[b].current_state = "EVALUATING"
    /\ ~machines[b].action_fired
    /\ machines[b].signal_count = 1
    /\ episode[b].releases = 0
    /\ unwrap(machines[b].first_signal_time) + ThresholdMs(b) <= MaxTicks * TickMs

\* C12: when a button with a HELD action enters EVALUATING and no further
\* signal arrives for it, then, the sweep being invoked as time advances, a
\* HELD event is eventually emitted for the button.
C12_HeldEventually ==
    \A b \in Buttons :
        AwaitingHold(b) ~> episode[b].HELD >= 1

C12_Witness ==
    \E b \in Buttons :
        /\ SweepCall
        /\ HasHeld(b)
        /\ Pre(b).current_state = "EVALUATING"
        /\ Pre(b).signal_count = 1
        /\ episode[b].releases = 0
        /\ Emitted(b, "HELD") = 1
        /\ episode[b].HELD = 1

----------------------------------------------------------------------------
(* C13: a run replayed after reset *)

\* C13: after every machine is reset, replaying the recorded calls (inputs
\* and sweeps) at the same distances in time under the same configuration
\* emits, call by call, exactly the events of the first run.
C13_ReplayReproduces ==
    replay.phase = "second"
        => \A i \in 1 .. Len(replay.second) : replay.second[i] = replay.first[i]

\* a whole run of at least two calls that emitted an event was replayed
\* after a reset that found a machine out of its constructed state
C13_Witness ==
    /\ replay.phase = "second"
    /\ replay.residue
    /\ Len(replay.script) >= 2
    /\ Len(replay.second) = Len(replay.script)
    /\ \E i \in 1 .. Len(replay.second) : replay.second[i] # <<>>

----------------------------------------------------------------------------
(* C14: first_signal_time and signal_count *)

\* C14: after any sequence of new, record_signal, transition_to,
\* mark_action_fired and reset, first_signal_time is set if and only if
\* signal_count > 0.
C14_FirstSignalIffCounted ==
    \A b \in Buttons :
        is_some(machines[b].first_signal_time) <=> machines[b].signal_count > 0

\* a second signal has just been recorded on a marked machine that was
\* moved on from IDLE
C14_Witness ==
    \E b \in Buttons :
        /\ call.op = "record_signal"
        /\ machines[b].signal_count = 2
        /\ machines[b].action_fired
        /\ machines[b].current_state # "IDLE"
        /\ unwrap(machines[b].first_signal_time) < now

----------------------------------------------------------------------------
(* C15: action_fired is cleared by reset only *)

\* the dispatcher resets the machine of b on the transition this frame yields
ResetsOn(b, levels) ==
    LET st == process_input(machines[b], ButtonInput(b, levels[b]), now,
                            config, logic, AllLocked)
    IN  \/ st.tr.kind = "Reset"
        \/ st.tr.kind = "EmitEvents" /\ has_releasing_event(st.tr.events)

\* C15: action_fired of a machine goes from true to false only through
\* reset: in a process_hid_data call on whose transition the dispatcher
\* resets the machine, which leaves it as constructed; a process_input step
\* that does not reset and the timeout sweep never clear it.
C15_ClearedByResetOnly ==
    [][\A b \in Buttons :
           (machines[b].action_fired /\ ~machines'[b].action_fired)
               => /\ call'.op = "process_hid_data"
                  /\ ResetsOn(b, call'.levels)
                  /\ machines'[b] = reset(machines[b], initial_state)]_vars

\* the release of a marked machine in HELD has reset it
C15_Witness ==
    \E b \in Buttons :
        /\ SignalCall(b, FALSE)
        /\ Pre(b).action_fired
        /\ Pre(b).current_state = "HELD"
        /\ episode[b].HELD >= 1
        /\ Cleared(machines[b])

----------------------------------------------------------------------------
(* C16: a button with neither a PRESSED nor a HELD action *)

EventsOf(b) == {i \in DOMAIN events : events[i].button_name = b}

\* C16, as claimed: no call emits an event of any type for a button with
\* neither a PRESSED nor a HELD action.
C16_AsClaimed ==
    \A b \in Buttons :
        (~HasPressed(b) /\ ~HasHeld(b)) => EventsOf(b) = {}

\* C16: for a button with neither a PRESSED nor a HELD action no call emits
\* a PRESSED or a HELD event; the only event it emits is RELEASING, on a
\* release and only when a RELEASING action is configured, so that a button
\* without any of the three actions emits nothing.
C16_ReleasingAtMost ==
    \A b \in Buttons :
        (~HasPressed(b) /\ ~HasHeld(b))
            => \A i \in EventsOf(b) :
                   /\ events[i].event_type = "RELEASING"
                   /\ HasReleasing(b)
                   /\ ReleaseCall(b)

\* such a button, with a RELEASING action, was released and emitted RELEASING
C16_Witness ==
    \E b \in Buttons :
        /\ ~HasPressed(b) /\ ~HasHeld(b)
        /\ ReleaseCall(b)
        /\ Emitted(b, "RELEASING") = 1

----------------------------------------------------------------------------
(* C17: a configuration lookup fails *)

\* the last call was a process_input for b whose first lookup,
\* get_button_config, failed
ConfigLookupFailed(b) ==
    /\ b \in pedals
    /\ call.op = "process_hid_data"
    /\ ~call.lk.config

\* the last call was a release that reached the lookup of the RELEASING
\* action, which failed after get_button_config had succeeded
ReleasingLookupFailed(b) ==
    /\ b \in pedals
    /\ ReleaseCall(b)
    /\ Pre(b).current_state \in {"EVALUATING", "HELD"}
    /\ call.lk.config
    /\ ~call.lk.releasing

----------------------------------------------------------------------------
(* C18: the priority of the hold thresholds *)

ButtonThreshold(b) == config.buttons[b].hold_threshold_time_ms
DeviceThreshold == config.settings

\* the per-button value when present, otherwise the per-device value when
\* present, otherwise the global default
PriorityThresholdMs(b) ==
    IF is_some(ButtonThreshold(b)) THEN unwrap(ButtonThreshold(b))
    ELSE IF is_some(DeviceThreshold) THEN unwrap(DeviceThreshold)
    ELSE logic.global_default_threshold_ms

\* the last call looked at the hold threshold of b: a sweep or an asserted
\* signal found the machine in EVALUATING, not yet fired
HoldChecked(b) ==
    /\ SignalCall(b, TRUE) \/ SweepCall
    /\ HasHeld(b)
    /\ Pre(b).current_state = "EVALUATING"
    /\ ~Pre(b).action_fired
    /\ is_some(Pre(b).first_signal_time)

----------------------------------------------------------------------------
(* C19: the quick-release threshold *)

\* max(200, floor(hold_threshold * 60 / 100)), with one limb more than a u64
\* so that the product is exact
ExactQuickReleaseMs(hold_threshold) ==
    LET product == mul_small(hold_threshold, 60)
        exact == Append(product.limbs, product.carry)
    IN  max(div_small(exact, 100), Append(u64(200), 0))

\* C19, as claimed: whatever the resolved hold threshold, the quick-release
\* threshold computed from it is max(200, floor(threshold_ms * 60 / 100)).
C19_AsClaimed ==
    calc.outcome # "none"
        => /\ calc.outcome = "value"
           /\ Append(calc.value, 0) = ExactQuickReleaseMs(calc.hold_threshold)

----------------------------------------------------------------------------
(* C20: the same value fed twice in a row *)

\* this step is a process_hid_data call that feeds b the value the call
\* before it, also a process_hid_data, has fed it
IdenticalFeed(b) ==
    /\ call.op = "process_hid_data"
    /\ call'.op = "process_hid_data"
    /\ now' = now
    /\ call'.levels[b] = call.levels[b]

----------------------------------------------------------------------------
(* C21: a de-asserted signal in IDLE *)

\* C21: a process_input with is_pressed = false for a button in IDLE emits
\* no event for the button and leaves every field of its machine unchanged.
C21_IdleStaysIdle ==
    \A b \in Buttons :
        (SignalCall(b, FALSE) /\ Pre(b).current_state = "IDLE")
            => /\ EventsOf(b) = {}
               /\ machines[b] = Pre(b)

\* after an episode of the operated pedal, a de-asserted signal found it IDLE
C21_Witness ==
    \E b \in pedals :
        /\ SignalCall(b, FALSE)
        /\ Pre(b).current_state = "IDLE"
        /\ episode[b].releases >= 1
        /\ machines[b].current_state = "IDLE"
        /\ EventsOf(b) = {}

----------------------------------------------------------------------------
(* C22: PRESSED and RELEASING of one release *)

\* the last call released b from EVALUATING
EvaluatingRelease(b) ==
    /\ ReleaseCall(b)
    /\ Pre(b).current_state = "EVALUATING"

\* C22: a release in EVALUATING that emits PRESSED emits RELEASING in the
\* same call exactly when a RELEASING action is configured, every PRESSED
\* event of the call comes before its RELEASING event, and no RELEASING
\* event is emitted without a RELEASING action.
C22_PressedThenReleasing ==
    \A b \in Buttons :
        EvaluatingRelease(b)
            => /\ Emitted(b, "RELEASING") > 0 => HasReleasing(b)
               /\ Emitted(b, "PRESSED") > 0
                      => (Emitted(b, "RELEASING") = 1 <=> HasReleasing(b))
               /\ \A i, j \in EventsOf(b) :
                      (/\ events[i].event_type = "PRESSED"
                       /\ events[j].event_type = "RELEASING") => i < j

\* a quick release of a pressed+held button with a RELEASING action emitted
\* PRESSED and then RELEASING
C22_Witness ==
    \E b \in Buttons :
        /\ EvaluatingRelease(b)
        /\ PressedAndHeld(b)
        /\ HasReleasing(b)
        /\ ElapsedMs(b) < QuickReleaseMs(b)
        /\ events = <<ButtonEvent(b, "PRESSED"), ButtonEvent(b, "RELEASING")>>

----------------------------------------------------------------------------
(* C23: the order of the events *)

ButtonIndex(b) == CHOOSE i \in DOMAIN ButtonOrder : ButtonOrder[i] = b

\* the events of the last call that are of button b, in their order
EventsFor(b) == SelectSeq(events, LAMBDA e : e.button_name = b)

\* what process_input returned for b in the last call
Returned(b) ==
    process_input(Pre(b), ButtonInput(b, call.levels[b]), call.at, config, logic,
                  call.lk).tr.events

\* C23: the events of one raw sample are emitted in button-enumeration
\* order; the events of one button are the events its process_input call,
\* or its sweep check, produced, in the order it produced them; and the
\* action manager handles the events of a call in the emitted order.
C23_EventOrder ==
    /\ call.op = "process_hid_data"
           => /\ \A i, j \in DOMAIN events :
                     i < j => ButtonIndex(events[i].button_name)
                                  <= ButtonIndex(events[j].button_name)
              /\ \A b \in Buttons : EventsFor(b) = Returned(b)
    /\ SweepCall
           => \A b \in Buttons :
                  EventsFor(b) = timeout_check(Pre(b), b, call.at, config, logic,
                                               TRUE).events
    /\ handle_events(events) = events

\* one sample made events of two buttons, two of them of the same button
C23_Witness ==
    /\ call.op = "process_hid_data"
    /\ \E b1, b2 \in Buttons :
           /\ ButtonIndex(b1) < ButtonIndex(b2)
           /\ Len(EventsFor(b1)) >= 1
           /\ EventsFor(b2) = <<ButtonEvent(b2, "PRESSED"),
                                ButtonEvent(b2, "RELEASING")>>
    /\ handle_events(events) = events

----------------------------------------------------------------------------
(* C24: the buttons are independent *)

\* the configuration with the entries of every button but b emptied
OwnConfig(b) ==
    [config EXCEPT !.buttons =
        [c \in Buttons |->
            IF c = b
            THEN config.buttons[c]
            ELSE [actions |-> {}, hold_threshold_time_ms |-> None]]]

\* button b alone: its machine before the call, its own level, its own
\* configuration and the time of the call
Alone(b) ==
    IF call.op = "process_hid_data"
    THEN dispatch(Pre(b), ButtonInput(b, call.levels[b]), call.at, OwnConfig(b),
                  logic, call.lk)
    ELSE timeout_check(Pre(b), b, call.at, OwnConfig(b), logic, TRUE)

\* C24: whatever signals the other buttons receive in the same sample or
\* sweep, and whatever their machines and configurations are, the machine
\* of a button after a call and the events of the button in the call are
\* those the button produces alone, from its own machine, its own input,
\* its own configuration and the time of the call.
C24_Independent ==
    call.op \in {"process_hid_data", "process_button_timeouts"}
        => \A b \in Buttons :
               /\ machines[b] = Alone(b).sm
               /\ EventsFor(b) = Alone(b).events

\* one sample finds two differently configured buttons in different states
\* and changes the machines of both
C24_Witness ==
    /\ call.op = "process_hid_data"
    /\ \E b1, b2 \in Buttons :
           /\ config.buttons[b1] # config.buttons[b2]
           /\ Pre(b1).current_state = "EVALUATING"
           /\ Pre(b2).current_state = "IDLE"
           /\ call.levels[b1] # call.levels[b2]
           /\ machines[b1] # Pre(b1)
           /\ machines[b2] # Pre(b2)
           /\ EventsFor(b1) # <<>>

----------------------------------------------------------------------------
(* C25: a repeated signal is a confirmed hold *)

\* the last call fed an asserted signal to the button in EVALUATING
EvaluatingSignal(b) ==
    SignalCall(b, TRUE) /\ Pre(b).current_state = "EVALUATING"

\* C25: when a button with a PRESSED and a HELD action is in EVALUATING
\* with action_fired false, a further asserted signal brings signal_count
\* to 2 or more, emits exactly one HELD event and no other, and marks
\* action_fired; when less than threshold_ms has elapsed since the first
\* signal the state stays EVALUATING.
C25_RepeatedSignalFiresHeld ==
    \A b \in Buttons :
        (EvaluatingSignal(b) /\ PressedAndHeld(b) /\ ~Pre(b).action_fired)
            => /\ is_some(Pre(b).first_signal_time)
               /\ machines[b].signal_count >= 2
               /\ EventsFor(b) = <<ButtonEvent(b, "HELD")>>
               /\ machines[b].action_fired
               /\ (ElapsedMs(b) < ThresholdMs(b)
                      => machines[b].current_state = "EVALUATING")

\* the repeated signal came before the threshold and fired HELD
C25_Witness ==
    \E b \in Buttons :
        /\ EvaluatingSignal(b)
        /\ PressedAndHeld(b)
        /\ ~Pre(b).action_fired
        /\ ElapsedMs(b) < ThresholdMs(b)
        /\ Emitted(b, "HELD") = 1
        /\ machines[b].action_fired
        /\ machines[b].current_state = "EVALUATING"

----------------------------------------------------------------------------
(* C26: an asserted signal at the threshold *)

\* C26: an asserted signal for a button in EVALUATING leaves its machine in
\* HELD when the time since the first signal is at least threshold_ms, the
\* boundary included, and in EVALUATING when it is less, whatever actions
\* the button has and whether or not an action has fired.
C26_HeldIffThreshold ==
    \A b \in Buttons :
        EvaluatingSignal(b)
            => /\ is_some(Pre(b).first_signal_time)
               /\ ElapsedMs(b) >= ThresholdMs(b)
                      <=> machines[b].current_state = "HELD"
               /\ ElapsedMs(b) < ThresholdMs(b)
                      <=> machines[b].current_state = "EVALUATING"

\* exactly at the threshold, a button without a HELD action went to HELD
C26_Witness ==
    \E b \in Buttons :
        /\ EvaluatingSignal(b)
        /\ ~HasHeld(b)
        /\ ElapsedMs(b) = ThresholdMs(b)
        /\ machines[b].current_state = "HELD"

\* one tick before the threshold the machine stayed in EVALUATING
C26_WitnessBefore ==
    \E b \in Buttons :
        /\ EvaluatingSignal(b)
        /\ ElapsedMs(b) + TickMs = ThresholdMs(b)
        /\ machines[b].current_state = "EVALUATING"

----------------------------------------------------------------------------
(* C27: a release in EVALUATING cancels the pending hold *)

\* no hold evaluation is pending: the machine is as constructed, or it is in
\* EVALUATING with its action already fired
Cancelled(b) ==
    \/ Cleared(machines[b])
    \/ machines[b].current_state = "EVALUATING" /\ machines[b].action_fired

\* C27: a release processed while the button is in EVALUATING leaves no hold
\* evaluation pending, and while none is pending every timeout sweep and
\* every de-asserted signal emits no HELD event for the button and leaves
\* none pending; only an asserted signal can start one again.
C27_ReleaseCancelsHold ==
    [][\A b \in Buttons :
           /\ EvaluatingRelease(b)' => Cancelled(b)'
           /\ ( /\ Cancelled(b)
                /\ now' = now
                /\ \/ call'.op = "process_button_timeouts"
                   \/ call'.op = "process_hid_data" /\ ~call'.levels[b] )
                  => /\ Cancelled(b)'
                     /\ CountOf(events', b, "HELD") = 0]_vars

\* after a release in EVALUATING and no asserted signal since, a sweep saw
\* the threshold elapsed on a button with a HELD action and emitted nothing
C27_Witness ==
    \E b \in Buttons :
        /\ SweepCall
        /\ HasHeld(b)
        /\ Pre(b).current_state = "EVALUATING"
        /\ Pre(b).signal_count = 1
        /\ episode[b].releases >= 1
        /\ ElapsedMs(b) >= ThresholdMs(b)
        /\ events = <<>>
        /\ Cancelled(b)

----------------------------------------------------------------------------
(* C28: an asserted signal in RELEASING *)

\* the last process_input was handed an asserted signal and a machine in
\* RELEASING
ReleasingSignal(b) ==
    /\ call.op = "process_input"
    /\ call.levels[b]
    /\ Pre(b).current_state = "RELEASING"

\* C28, as claimed: an asserted signal for a button in RELEASING emits no
\* event and moves the machine to EVALUATING, and the evaluation starts
\* anew: its hold-threshold clock, first_signal_time, is the time of this
\* signal and no action counts as fired.
C28_AsClaimed ==
    \A b \in Buttons :
        ReleasingSignal(b)
            => /\ events = <<>>
               /\ machines[b].current_state = "EVALUATING"
               /\ machines[b].first_signal_time = Some(call.at)
               /\ ~machines[b].action_fired

\* what the call does: no event, EVALUATING, the signal counted, and the
\* first signal time and the action_fired mark of the release kept
C28_Resumed ==
    \A b \in Buttons :
        ReleasingSignal(b)
            => /\ events = <<>>
               /\ machines[b].current_state = "EVALUATING"
               /\ is_some(Pre(b).first_signal_time)
               /\ machines[b].first_signal_time = Pre(b).first_signal_time
               /\ machines[b].action_fired = Pre(b).action_fired
               /\ machines[b].signal_count = Pre(b).signal_count + 1
               /\ machines[b].last_signal_time = Some(call.at)

----------------------------------------------------------------------------
(* C29: what the timeout sweep leaves alone *)

\* the sweep has nothing to do for the button
NotDue(b) ==
    \/ Pre(b).current_state # "EVALUATING"
    \/ ElapsedMs(b) < ThresholdMs(b)
    \/ Pre(b).action_fired
    \/ ~HasHeld(b)

\* C29: the timeout sweep emits no event for, and leaves the machine
\* unchanged of, every button that is not in EVALUATING and every button in
\* EVALUATING whose threshold has not elapsed, whose action_fired is already
\* true, or that has no HELD action.
C29_SweepFrame ==
    SweepCall
        => \A b \in Buttons :
               NotDue(b) => /\ machines[b] = Pre(b)
                            /\ EventsFor(b) = <<>>

\* one tick before its threshold a button in EVALUATING with a HELD action
\* and no action fired was left as it was by the sweep
C29_Witness ==
    /\ SweepCall
    /\ \E b \in Buttons :
           /\ Pre(b).current_state = "EVALUATING"
           /\ HasHeld(b)
           /\ ~Pre(b).action_fired
           /\ unwrap(Pre(b).first_signal_time) > 0
           /\ ElapsedMs(b) + TickMs = ThresholdMs(b)
           /\ machines[b] = Pre(b)
           /\ events = <<>>

----------------------------------------------------------------------------
(* C30: the quick-release window and the hold threshold *)

\* C30, as claimed: for a button with a PRESSED and a HELD action, a release
\* at or after threshold_ms since the first signal emits no PRESSED event,
\* whatever the configured threshold is.
C30_AsClaimed ==
    \A b \in Buttons :
        ( /\ PressedAndHeld(b)
          /\ ReleaseCall(b)
          /\ ElapsedMs(b) >= ThresholdMs(b) )
            => Emitted(b, "PRESSED") = 0

\* where the quick-release threshold does not exceed the hold threshold, no
\* such release emits PRESSED
C30_WindowWithinThreshold ==
    \A b \in Buttons :
        ( /\ PressedAndHeld(b)
          /\ ReleaseCall(b)
          /\ ElapsedMs(b) >= ThresholdMs(b)
          /\ QuickReleaseMs(b) <= ThresholdMs(b) )
            => Emitted(b, "PRESSED") = 0

----------------------------------------------------------------------------
(* C31: events have a configured action *)

\* the last call ran process_input
InputCall == call.op \in {"process_hid_data", "process_input"}

\* C31: every event emitted by process_input has a configured action of its
\* own type for its button: PRESSED only with a PRESSED action, HELD only
\* with a HELD action, RELEASING only with a RELEASING action.
C31_EventsConfigured ==
    InputCall
        => \A i \in DOMAIN events :
               is_some(get_actions_for_button_event(config, events[i].button_name,
                                                    events[i].event_type))

\* a button with only a RELEASING action was released and emitted RELEASING
C31_Witness ==
    \E b \in Buttons :
        /\ InputCall
        /\ config.buttons[b].actions = {"RELEASING"}
        /\ events = <<ButtonEvent(b, "RELEASING")>>

----------------------------------------------------------------------------
(* C32: IDLE is the cleared machine *)

\* signal_count = 0, first_signal_time unset, action_fired false
FullyCleared(sm) ==
    /\ sm.signal_count = 0
    /\ is_none(sm.first_signal_time)
    /\ ~sm.action_fired

\* C32: in every state reached through process_input and reset, a machine
\* is in IDLE if and only if it is fully cleared; a machine that
\* process_input brought to IDLE is the machine reset makes, and a machine
\* that process_input took out of IDLE has recorded the signal of the call.
C32_IdleIffCleared ==
    \A b \in Buttons :
        /\ machines[b].current_state = "IDLE" <=> FullyCleared(machines[b])
        /\ machines[b].current_state = "IDLE" => Cleared(machines[b])
        /\ ( /\ InputCall
             /\ Pre(b).current_state = "IDLE"
             /\ machines[b].current_state # "IDLE" )
               => /\ call.levels[b]
                  /\ machines[b].signal_count = 1
                  /\ machines[b].first_signal_time = Some(call.at)

\* a machine whose action had fired and whose signals were counted has been
\* reset to IDLE by the release
C32_Witness ==
    \E b \in Buttons :
        /\ InputCall
        /\ ~call.levels[b]
        /\ Pre(b).current_state # "IDLE"
        /\ Pre(b).action_fired
        /\ Pre(b).signal_count >= 2
        /\ machines[b].current_state = "IDLE"
        /\ FullyCleared(machines[b])

----------------------------------------------------------------------------
(* C33: a scheduled release and the press it was scheduled for *)

\* the last call was process_scheduled_releases
ReleasesCall == call.op = "process_scheduled_releases"

\* C33, as claimed: a release that process_scheduled_releases executes on a
\* key pressed before the entry fell due releases the press that was active
\* when the entry was scheduled, never a later press of the same key.
C33_AsClaimed ==
    ReleasesCall
        => \A j \in DOMAIN keylog.released :
               keylog.released[j].pressed_at < keylog.released[j].release_time
                   => keylog.released[j].entry_for = keylog.released[j].press

----------------------------------------------------------------------------
(* C34: what process_scheduled_releases removes and releases *)

\* the entries that were due when the last call ran
DueAtCall ==
    {i \in DOMAIN call.scheduled : call.scheduled[i].release_time <= call.at}

\* C34: process_scheduled_releases keeps, in their order, exactly the
\* entries whose release time is later than now and removes the others,
\* whether their release succeeds, fails or is skipped; it releases only keys
\* that are in pressed_keys, and a key leaves pressed_keys exactly when it
\* was in it and the release of one of its due entries succeeded.
C34_DueEntries ==
    ReleasesCall
        => /\ scheduled_releases =
                  SelectSeq(call.scheduled,
                            LAMBDA e : ~(e.release_time <= call.at))
           /\ \A j \in DOMAIN keylog.released :
                  keylog.released[j].key \in call.pressed
           /\ pressed_keys =
                  call.pressed \ {call.scheduled[i].key :
                                     i \in DueAtCall \ call.failing}

\* of two entries of pressed keys, the one due exactly now was dropped
\* although its release failed, and the later one was kept
C34_Witness ==
    /\ ReleasesCall
    /\ \E i, k \in DOMAIN call.scheduled :
           /\ call.scheduled[i].release_time = call.at
           /\ call.scheduled[i].key \in call.pressed
           /\ i \in call.failing
           /\ call.scheduled[i].key \in pressed_keys
           /\ call.scheduled[k].release_time > call.at
           /\ scheduled_releases = <<call.scheduled[k]>>

----------------------------------------------------------------------------
(* C35: the legacy parser ignores a malformed frame *)

ParseCall == call.op = "parse_hid_data"

\* shorter than 8 bytes, or byte 0 is not 1, or byte 2 is not 3
Malformed(data) ==
    \/ Len(data) < 8
    \/ data[1] # 1
    \/ data[3] # 3

\* C35: a call of the legacy HoldIntentParser::parse_hid_data with a frame
\* shorter than 8 bytes, or whose byte 0 is not 1, or whose byte 2 is not 3,
\* returns no events and leaves every tracker as it was
C35_MalformedIgnored ==
    (ParseCall /\ Malformed(call.data))
        => /\ events = <<>>
           /\ trackers = call.pre

\* a frame with a wrong byte 2 arrives when the evaluation window of Button1
\* has passed: well formed, it would have ended the episode
C35_Witness ==
    /\ ParseCall
    /\ Len(call.data) = 8 /\ call.data[1] = 1 /\ call.data[3] # 3
    /\ call.data[5] = 0
    /\ call.pre["Button1"].state = "EVALUATING"
    /\ call.at - unwrap(call.pre["Button1"].first_signal_time)
           >= evaluation_window_ms + 100
    /\ trackers["Button1"].state = "EVALUATING"

\* a frame of 7 bytes that asserts Button1 arrives while its tracker is IDLE
C35_WitnessShort ==
    /\ ParseCall
    /\ Len(call.data) = 7 /\ call.data[1] = 1 /\ call.data[3] = 3
    /\ call.data[5] # 0
    /\ trackers["Button1"].state = "IDLE"

----------------------------------------------------------------------------
(* C36: one PRESSED or HELD and one closing RELEASED per legacy episode *)

\* the last call reset the tracker of b
TrackerReset(b) ==
    /\ ParseCall
    /\ call.pre[b].state = "EVALUATING"
    /\ trackers[b].state = "IDLE"

\* C36: in the legacy parser an episode of a button emits at most one event
\* among PRESSED and HELD and one RELEASED; the RELEASED is emitted in the
\* parse_hid_data call that resets the tracker and in no other, as the last
\* event of the button, so the end-of-window PRESSED never is a second event
C36_OneEventThenReleased ==
    \A b \in Buttons :
        /\ episode[b].PRESSED + episode[b].HELD <= 1
        /\ episode[b].RELEASED <= 1
        /\ trackers[b].state = "EVALUATING" => episode[b].RELEASED = 0
        /\ (episode[b].started /\ trackers[b].state = "IDLE")
               => episode[b].RELEASED = 1
        /\ ParseCall
               => /\ CountOf(events, b, "RELEASED") = 1 <=> TrackerReset(b)
                  /\ CountOf(events, b, "RELEASED") <= 1
                  /\ TrackerReset(b)
                         => EventsFor(b)[Len(EventsFor(b))]
                                = ButtonEvent(b, "RELEASED")

\* the first frame without the signal arrives after the window of a button
\* with both actions: HELD and RELEASED leave in one call, and no PRESSED
C36_Witness ==
    /\ TrackerReset("Button1")
    /\ {"PRESSED", "HELD"} \subseteq config.buttons["Button1"].actions
    /\ call.pre["Button1"].action_fired = FALSE
    /\ EventsFor("Button1")
           = <<ButtonEvent("Button1", "HELD"), ButtonEvent("Button1", "RELEASED")>>
    /\ episode["Button1"] = [started |-> TRUE, PRESSED |-> 0, HELD |-> 1,
                             RELEASED |-> 1]

\* a quick release emitted PRESSED, and the window then closed with RELEASED
C36_WitnessPressed ==
    /\ TrackerReset("Button1")
    /\ {"PRESSED", "HELD"} \subseteq config.buttons["Button1"].actions
    /\ EventsFor("Button1") = <<ButtonEvent("Button1", "RELEASED")>>
    /\ episode["Button1"] = [started |-> TRUE, PRESSED |-> 1, HELD |-> 0,
                             RELEASED |-> 1]

----------------------------------------------------------------------------
(* C37: the queue of the legacy manager never holds a press on return *)

ManagerCall == call.op = "handle_raw_data"

\* C37: in the legacy InputActionManager the presses queue is empty whenever
\* handle_raw_data returns, so process_presses never retains more than one
\* press and the simultaneous-press branch with its todo! is never run
C37_QueueEmptyOnReturn ==
    ManagerCall
        => /\ call.outcome = "returned" => presses = <<>>
           /\ call.queued = <<>>
           /\ call.processed # "todo"
           /\ Len(presses) <= 1

\* a pedal frame is handled less than 900 ms after the frame before it was
\* processed: the press is pushed, processed alone and popped
C37_Witness ==
    /\ ManagerCall
    /\ call.outcome = "returned"
    /\ call.processed = "single"
    /\ call.last > 0
    /\ call.at - call.last < ProcessWindowMs
    /\ last_processed_time = call.at
    /\ presses = <<>>

====
